---- MODULE Spec2Model ----
(***************************************************************************)
(* A model of the TruStory "octopus" backend: the notification workers     *)
(* (push service reward worker, truapi comment/broadcast senders) and the  *)
(* metrics handlers of truapi.                                             *)
(***************************************************************************)
EXTENDS Integers, Sequences, FiniteSets, TLC

(***************************************************************************)
(* Bounds of the model.                                                    *)
(***************************************************************************)
MaxRequests == 2
NumProducers == 2
MaxStories == 1
MaxStakes == 2
MaxTxs == 2
MaxTime == 2
MaxClaims == 2
MaxBody == 5
MaxCalls == 3
MaxCred == 2
MaxNow == 5
MaxSuffix == 10
MaxDay == 4

VARIABLES
    \* ---- notification subsystem ----
    notificationsInitialized,  \* TruAPI.notificationsInitialized
    mainPc,                    \* position of truapi's main around RunNotificationSender
    goroutines,                \* sequence of worker goroutines (records)
    chanBuf,                   \* channel name -> buffered items (capacity ChanCap)
    pending,                   \* producer -> request it is blocked sending, or NoReq
    nextId,                    \* ghost: number of requests produced so far
    received,                  \* ghost: channel -> ids in the order the worker received them
    delivered,                 \* channel -> notifications forwarded downstream, in order
    dropped,                   \* ghost: ids of requests the worker dropped
    failed                     \* ghost: ids of requests one of whose lookups returned an error

notifyVars == <<notificationsInitialized, mainPc, goroutines, chanBuf, pending,
                nextId, received, delivered, dropped, failed>>

VARIABLES
    \* ---- HandleMetrics (one request) ----
    hmPc,                      \* position of the handler
    beforeDate,                \* the parsed cutoff date
    hmStories,                 \* stories scanned so far (the prefix of the stories slice)
    mappedStories,             \* keys of mappedStories
    mapUserStakeByStoryID,     \* <<user, story id>> -> last staked amount seen
    metricsSummary,            \* MetricsSummary.Users
    hmUsers,                   \* profiles returned by FindAll still to be scanned
    hmResponse,                \* what has been written to the ResponseWriter, in order
    refSummary,                \* ghost: the summary built from the items created before the cutoff only
    observedStaked,            \* ghost: <<user, category>> -> sum of the stakes created before the cutoff
    lastResults,               \* ghost: the per-story reward results of the last profile scanned
    hmBudget                   \* ghost: stories, stakes and transactions still to come

metricsVars == <<hmPc, beforeDate, hmStories, mappedStories, mapUserStakeByStoryID,
                 metricsSummary, hmUsers, hmResponse, refSummary, observedStaked,
                 lastResults, hmBudget>>

VARIABLES
    \* ---- the CSV reports (one request) ----
    rpHandler,                 \* the handler serving the request
    rpPc,                      \* position of the handler
    rpDate,                    \* the parsed date parameter
    rpOut,                     \* what has reached the ResponseWriter
    rpBuf,                     \* records in the buffer of the csv.Writer
    rpCount,                   \* claims ranged over so far
    chainMetrics,              \* HandleUsersMetrics: the Metrics accumulator
    rpUsers,                   \* users still to range over
    rpFound,                   \* ghost: the users as FindAll returned them
    rpCommunities,             \* HandleUsersMetrics: the communities
    rpBudget,                  \* ghost: claims, stakes and transactions still to come
    rpFailed,                  \* ghost: the data-access and chain-query calls that returned an error
    rpSecret,                  \* HandleUserBase: Config.Metrics.Secret as the handler read it
    rpHeader                   \* HandleUserBase: the Metrics-Secret header of the request

reportVars == <<rpHandler, rpPc, rpDate, rpOut, rpBuf, rpCount, chainMetrics, rpUsers, rpFound,
                rpCommunities, rpBudget, rpFailed, rpSecret, rpHeader>>

VARIABLES
    \* ---- the mention translator (one call) ----
    mnOp,                      \* the translation called
    mnBody,                    \* the body passed in, a sequence of characters
    mnOut,                     \* the body returned
    mnErr,                     \* whether an error was returned
    mnHTTPS                    \* config.Host.HTTPSEnabled

mentionVars == <<mnOp, mnBody, mnOut, mnErr, mnHTTPS>>

VARIABLES
    \* ---- invites of one user (concurrent calls) ----
    invitesLeft,               \* users.invites_left of the user
    rewardLedger,              \* the reward ledger entries recorded for the user
    invCalls                   \* the calls of ConsumeInvite and GrantInvites

invitesVars == <<invitesLeft, rewardLedger, invCalls>>

VARIABLES
    \* ---- a handler wrapped by BasicAuth (one request) ----
    baPc,                      \* "new", "ready" once wrapped, "served"
    baAdmin,                   \* apiCtx.Config.Admin
    baRequest,                 \* the request served
    baResponse,                \* status, WWW-Authenticate header and body written
    baInvoked                  \* calls of the wrapped handler

basicAuthVars == <<baPc, baAdmin, baRequest, baResponse, baInvoked>>

VARIABLES
    \* ---- the users table (flags of one registered user) ----
    userRows,                  \* id -> row of the users table; 0 is NULL
    dbNow,                     \* the clock read by time.Now() and NOW()
    lastOp,                    \* the last call on the table and how it returned
    lastAuth,                  \* the last call of GetAuthenticatedUser
    blacklistedIDs             \* ghost: ids blacklisted and not unblacklisted since

usersVars == <<userRows, dbNow, lastOp, lastAuth, blacklistedIDs>>

VARIABLES
    \* ---- getUniqueUsername (one call and its recursion) ----
    unTaken,                   \* the usernames of the users not deleted
    unUsername,                \* the username asked for
    unSuffix,                  \* the suffix of the current invocation
    unPc,                      \* "idle", "call", "done" or "error"
    unResult                   \* the username returned

usernameVars == <<unTaken, unUsername, unSuffix, unPc, unResult>>

VARIABLES
    \* ---- notExpiredAt (one call) ----
    nePc,                      \* "idle" or "done"
    neArgs,                    \* the arguments date, created, end
    neResult                   \* the value returned

expiryVars == <<nePc, neArgs, neResult>>

vars == <<notifyVars, metricsVars, reportVars, mentionVars, invitesVars, basicAuthVars, usersVars, usernameVars, expiryVars>>

\* What the actions of one subsystem leave alone.
otherThanNotify == <<metricsVars, reportVars, mentionVars, invitesVars, basicAuthVars, usersVars, usernameVars, expiryVars>>
otherThanMetrics == <<notifyVars, reportVars, mentionVars, invitesVars, basicAuthVars, usersVars, usernameVars, expiryVars>>
otherThanReports == <<notifyVars, metricsVars, mentionVars, invitesVars, basicAuthVars, usersVars, usernameVars, expiryVars>>
otherThanMention == <<notifyVars, metricsVars, reportVars, invitesVars, basicAuthVars, usersVars, usernameVars, expiryVars>>
otherThanInvites == <<notifyVars, metricsVars, reportVars, mentionVars, basicAuthVars, usersVars, usernameVars, expiryVars>>
otherThanBasicAuth == <<notifyVars, metricsVars, reportVars, mentionVars, invitesVars, usersVars, usernameVars, expiryVars>>
otherThanUsers == <<notifyVars, metricsVars, reportVars, mentionVars, invitesVars, basicAuthVars, usernameVars, expiryVars>>
otherThanUsername == <<notifyVars, metricsVars, reportVars, mentionVars, invitesVars, basicAuthVars, usersVars, expiryVars>>
otherThanExpiry == <<notifyVars, metricsVars, reportVars, mentionVars, invitesVars, basicAuthVars, usersVars, usernameVars>>

(***************************************************************************)
(* Helpers on sequences.                                                   *)
(***************************************************************************)
Contains(seq, x) == \E i \in 1..Len(seq) : seq[i] = x

IndexOf(seq, x) == CHOOSE i \in 1..Len(seq) : seq[i] = x

(***************************************************************************)
(* db.User and Client.UserByID.                                            *)
(***************************************************************************)
NilUser == [ID |-> 0, Address |-> "<nil>", Username |-> "<nil>"]

UsersTable ==
    { [ID |-> 1, Address |-> "addr1", Username |-> "alice"],
      [ID |-> 2, Address |-> "addr2", Username |-> "bob"] }

\* The possible outcomes of one call: a database error, the row, or
\* (nil, nil) when pg.ErrNoRows is returned.
UserByID(ID) ==
    {[user |-> NilUser, err |-> TRUE]} \cup
    (IF \E u \in UsersTable : u.ID = ID
        THEN {[user |-> u, err |-> FALSE] : u \in {x \in UsersTable : x.ID = ID}}
        ELSE {[user |-> NilUser, err |-> FALSE]})

(***************************************************************************)
(* Reward notification requests (app.RewardNotificationRequest).           *)
(***************************************************************************)
RewardTypeInvite == "invite"
RewardTypeTru == "tru"
RewardCauserActionSignedUp == "signed_up"
RewardCauserActionOneArgument == "one_argument"
RewardCauserActionReceiveFiveAgrees == "receive_five_agrees"
NotificationRewardInviteUnlocked == "reward_invite_unlocked"
NotificationRewardTruUnlocked == "reward_tru_unlocked"
CoinDisplayName == "TRU"

NoReq == [id |-> 0, ch |-> "none", RewardeeID |-> 0, CauserID |-> 0,
          RewardType |-> "none", RewardAmount |-> [amount |-> 0, denom |-> ""],
          CauserAction |-> "none"]

RewardeeIDs == {1, 3}
CauserIDs == {0, 2, 3}
CauserActions == {RewardCauserActionSignedUp, "other"}

RewardAmountFor(t) ==
    IF t = RewardTypeInvite THEN [amount |-> 3, denom |-> ""]
                            ELSE [amount |-> 2000000000, denom |-> "tru"]

RewardRequests(i) ==
    { [id |-> i, ch |-> "rewards", RewardeeID |-> r, CauserID |-> c,
       RewardType |-> t, RewardAmount |-> RewardAmountFor(t), CauserAction |-> a] :
         r \in RewardeeIDs, c \in CauserIDs,
         t \in {RewardTypeInvite, RewardTypeTru}, a \in CauserActions }

PlainRequests(i, ch) ==
    { [id |-> i, ch |-> ch, RewardeeID |-> 0, CauserID |-> 0,
       RewardType |-> "none", RewardAmount |-> [amount |-> 0, denom |-> ""],
       CauserAction |-> "none"] }

getNotificationTypeFromRequest(n) ==
    CASE n.RewardType = RewardTypeInvite -> NotificationRewardInviteUnlocked
      [] n.RewardType = RewardTypeTru -> NotificationRewardTruUnlocked
      [] OTHER -> "0"

\* sdk.ParseCoin fails on an amount without a denomination.
getRewardStringFromRequest(n) ==
    CASE n.RewardType = RewardTypeInvite -> <<ToString(n.RewardAmount.amount), "invites">>
      [] n.RewardType = RewardTypeTru ->
            IF n.RewardAmount.denom = ""
                THEN <<ToString(n.RewardAmount.amount)>>
                ELSE <<ToString(n.RewardAmount.amount \div 1000000000), CoinDisplayName>>
      [] OTHER -> <<>>

\* Mutant: the invite branch ignores the causer.
getRewardReasonFromRequestAlwaysYou(n, causer) ==
    CASE n.RewardType = RewardTypeInvite ->
            [panic |-> FALSE, text |-> <<"you", "became an active user on TruStory.">>]
      [] n.RewardType = RewardTypeTru ->
            IF causer = NilUser
                THEN [panic |-> TRUE, text |-> <<>>]
                ELSE [panic |-> FALSE, text |-> <<causer.Username, "", "on TruStory.">>]
      [] OTHER -> [panic |-> FALSE, text |-> <<>>]

\* The text is a sequence of tokens; panic is the nil dereference of
\* causer.Username in the tru branch.
getRewardReasonFromRequest(n, causer) ==
    CASE n.RewardType = RewardTypeInvite ->
            [panic |-> FALSE,
             text |-> <<(IF causer # NilUser THEN causer.Username ELSE "you"),
                        "became an active user on TruStory.">>]
      [] n.RewardType = RewardTypeTru ->
            IF causer = NilUser
                THEN [panic |-> TRUE, text |-> <<>>]
                ELSE [panic |-> FALSE,
                      text |-> <<causer.Username,
                                 (CASE n.CauserAction = RewardCauserActionSignedUp -> "signed up"
                                    [] n.CauserAction = RewardCauserActionOneArgument ->
                                         "has written at least one argument"
                                    [] n.CauserAction = RewardCauserActionReceiveFiveAgrees ->
                                         "has received at least five agrees"
                                    [] OTHER -> ""),
                                 "on TruStory.">>]
      [] OTHER -> [panic |-> FALSE, text |-> <<>>]

NoNotif == [To |-> "", Type |-> "", Msg |-> <<>>, Action |-> "", req |-> NoReq, causer |-> NilUser]

\* The Notification literal of processRewardsNotifications; req and causer
\* are ghost fields recording what the notification was built from.
RewardNotification(n, user, causer) ==
    [To |-> user.Address,
     Type |-> getNotificationTypeFromRequest(n),
     Msg |-> <<"rewarded with">> \o getRewardStringFromRequest(n) \o <<"because">>
              \o getRewardReasonFromRequest(n, causer).text,
     Action |-> "Reward unlocked",
     req |-> n,
     causer |-> causer]

\* What one iteration of the loop body does with request n: "drop" is the
\* continue after a lookup error, "panic" a nil dereference (user.Address
\* or causer.Username), "send" the notification handed to the delivery
\* channel.  err records that a lookup returned an error.
RewardBuild(n, user, causer) ==
    IF user = NilUser \/ getRewardReasonFromRequest(n, causer).panic
        THEN [kind |-> "panic", notif |-> NoNotif, err |-> FALSE]
        ELSE [kind |-> "send", notif |-> RewardNotification(n, user, causer), err |-> FALSE]

\* Mutant: the continue after a failed causer lookup is missing.
RewardOutcomesNoContinue(n) ==
    UNION { IF ur.err
              THEN {[kind |-> "drop", notif |-> NoNotif, err |-> TRUE]}
              ELSE IF n.CauserID # 0
                     THEN { IF cr.err THEN [RewardBuild(n, ur.user, NilUser) EXCEPT !.err = TRUE]
                                      ELSE RewardBuild(n, ur.user, cr.user) :
                              cr \in UserByID(n.CauserID) }
                     ELSE {RewardBuild(n, ur.user, NilUser)} :
            ur \in UserByID(n.RewardeeID) }

RewardOutcomes(n) ==
    UNION { IF ur.err
              THEN {[kind |-> "drop", notif |-> NoNotif, err |-> TRUE]}
              ELSE IF n.CauserID # 0
                     THEN { IF cr.err THEN [kind |-> "drop", notif |-> NoNotif, err |-> TRUE]
                                      ELSE RewardBuild(n, ur.user, cr.user) :
                              cr \in UserByID(n.CauserID) }
                     ELSE {RewardBuild(n, ur.user, NilUser)} :
            ur \in UserByID(n.RewardeeID) }

(***************************************************************************)
(* Channels and goroutines.                                                *)
(***************************************************************************)
Producers == 1..NumProducers
TruAPIChannels == {"comments", "broadcast"}
Channels == TruAPIChannels \cup {"rewards"}

\* Mutant: make(chan T, 1).
ChanCapBuffered(ch) == 1

\* make(chan T): no capacity argument, the channel is unbuffered.
ChanCap(ch) == 0

Goroutine(fn, ch) == [fn |-> fn, ch |-> ch, pc |-> "recv", n |-> NoReq, out |-> NoNotif]

WorkersOn(ch) == {i \in 1..Len(goroutines) : goroutines[i].ch = ch}

InitNotifyVars ==
    /\ notificationsInitialized = FALSE
    /\ mainPc = "init"
    /\ goroutines = <<Goroutine("processRewardsNotifications", "rewards")>>
    /\ chanBuf = [ch \in Channels |-> <<>>]
    /\ pending = [p \in Producers |-> NoReq]
    /\ nextId = 0
    /\ received = [ch \in Channels |-> <<>>]
    /\ delivered = [ch \in Channels |-> <<>>]
    /\ dropped = {}
    /\ failed = {}

\* Mutant: the comment sender is started twice.
RunNotificationSenderTwice ==
    /\ mainPc = "init"
    /\ mainPc' = "serving"
    /\ notificationsInitialized' = TRUE
    /\ goroutines' = goroutines \o
          <<Goroutine("runCommentNotificationSender", "comments"),
            Goroutine("runCommentNotificationSender", "comments"),
            Goroutine("runBroadcastNotificationSender", "broadcast")>>
    /\ UNCHANGED <<chanBuf, pending, nextId, received, delivered, dropped, failed>>
    /\ UNCHANGED otherThanNotify

\* TruAPI.RunNotificationSender, called once by the service's main.
RunNotificationSender ==
    /\ mainPc = "init"
    /\ mainPc' = "serving"
    /\ notificationsInitialized' = TRUE
    /\ goroutines' = goroutines \o
          <<Goroutine("runCommentNotificationSender", "comments"),
            Goroutine("runBroadcastNotificationSender", "broadcast")>>
    /\ UNCHANGED <<chanBuf, pending, nextId, received, delivered, dropped, failed>>
    /\ UNCHANGED otherThanNotify

\* A producer executes ch <- n.  The send completes at once only when the
\* channel has free buffer space; otherwise the producer blocks in pending.
ChanSend(p) ==
    /\ pending[p] = NoReq
    /\ nextId < MaxRequests
    /\ \E ch \in Channels :
         /\ ch \in TruAPIChannels => notificationsInitialized
         /\ \E n \in (IF ch = "rewards" THEN RewardRequests(nextId + 1)
                                         ELSE PlainRequests(nextId + 1, ch)) :
              IF Len(chanBuf[ch]) < ChanCap(ch)
                THEN /\ chanBuf' = [chanBuf EXCEPT ![ch] = Append(@, n)]
                     /\ UNCHANGED pending
                ELSE /\ pending' = [pending EXCEPT ![p] = n]
                     /\ UNCHANGED chanBuf
    /\ nextId' = nextId + 1
    /\ UNCHANGED <<notificationsInitialized, mainPc, goroutines, received, delivered, dropped, failed>>
    /\ UNCHANGED otherThanNotify

\* for n := range ch: the worker takes the next item, from the buffer when
\* it holds one (a blocked sender then moves its item into the buffer),
\* otherwise directly from a blocked sender.
ChanReceive(w) ==
    /\ w \in 1..Len(goroutines)
    /\ goroutines[w].pc = "recv"
    /\ LET ch == goroutines[w].ch
           blocked == {p \in Producers : pending[p].ch = ch}
       IN  IF chanBuf[ch] # <<>>
             THEN /\ goroutines' = [goroutines EXCEPT ![w].pc = "body", ![w].n = Head(chanBuf[ch])]
                  /\ received' = [received EXCEPT ![ch] = Append(@, Head(chanBuf[ch]).id)]
                  /\ IF blocked # {}
                       THEN \E p \in blocked :
                              /\ chanBuf' = [chanBuf EXCEPT ![ch] = Append(Tail(@), pending[p])]
                              /\ pending' = [pending EXCEPT ![p] = NoReq]
                       ELSE /\ chanBuf' = [chanBuf EXCEPT ![ch] = Tail(@)]
                            /\ UNCHANGED pending
             ELSE \E p \in blocked :
                    /\ goroutines' = [goroutines EXCEPT ![w].pc = "body", ![w].n = pending[p]]
                    /\ received' = [received EXCEPT ![ch] = Append(@, pending[p].id)]
                    /\ pending' = [pending EXCEPT ![p] = NoReq]
                    /\ UNCHANGED chanBuf
    /\ UNCHANGED <<notificationsInitialized, mainPc, nextId, delivered, dropped, failed>>
    /\ UNCHANGED otherThanNotify

\* The body of the loop of processRewardsNotifications up to the send on
\* the delivery channel.
processRewardsNotifications(w) ==
    /\ w \in 1..Len(goroutines)
    /\ goroutines[w].fn = "processRewardsNotifications"
    /\ goroutines[w].pc = "body"
    /\ \E o \in RewardOutcomes(goroutines[w].n) :
         /\ failed' = IF o.err THEN failed \cup {goroutines[w].n.id} ELSE failed
         /\ CASE o.kind = "drop" ->
                  /\ goroutines' = [goroutines EXCEPT ![w].pc = "recv"]
                  /\ dropped' = dropped \cup {goroutines[w].n.id}
             [] o.kind = "panic" ->
                  /\ goroutines' = [goroutines EXCEPT ![w].pc = "panicked"]
                  /\ UNCHANGED dropped
             [] OTHER ->
                  /\ goroutines' = [goroutines EXCEPT ![w].pc = "send", ![w].out = o.notif]
                  /\ UNCHANGED dropped
    /\ UNCHANGED <<notificationsInitialized, mainPc, chanBuf, pending, nextId, received, delivered>>
    /\ UNCHANGED otherThanNotify

\* Mutant: the notification jumps the delivery queue.
ForwardFirst(queue, notif) == <<notif>> \o queue

\* notifications <- &Notification{...}: the delivery queue takes the
\* notification and the worker returns to the top of its loop.
Forward(queue, notif) == Append(queue, notif)

RewardForward(w) ==
    /\ w \in 1..Len(goroutines)
    /\ goroutines[w].fn = "processRewardsNotifications"
    /\ goroutines[w].pc = "send"
    /\ delivered' = [delivered EXCEPT ![goroutines[w].ch] = Forward(@, goroutines[w].out)]
    /\ goroutines' = [goroutines EXCEPT ![w].pc = "recv", ![w].out = NoNotif]
    /\ UNCHANGED <<notificationsInitialized, mainPc, chanBuf, pending, nextId, received, dropped, failed>>
    /\ UNCHANGED otherThanNotify

\* The loop body of the comment and broadcast senders: resolve, format and
\* forward the request, or log a lookup failure and drop it.
runNotificationSender(w) ==
    /\ w \in 1..Len(goroutines)
    /\ goroutines[w].fn \in {"runCommentNotificationSender", "runBroadcastNotificationSender"}
    /\ goroutines[w].pc = "body"
    /\ \/ /\ delivered' = [delivered EXCEPT ![goroutines[w].ch] =
                               Forward(@, [NoNotif EXCEPT !.req = goroutines[w].n])]
          /\ UNCHANGED <<dropped, failed>>
       \/ /\ dropped' = dropped \cup {goroutines[w].n.id}
          /\ failed' = failed \cup {goroutines[w].n.id}
          /\ UNCHANGED delivered
    /\ goroutines' = [goroutines EXCEPT ![w].pc = "recv"]
    /\ UNCHANGED <<notificationsInitialized, mainPc, chanBuf, pending, nextId, received>>
    /\ UNCHANGED otherThanNotify

NextNotify ==
    \/ RunNotificationSender
    \/ \E p \in Producers : ChanSend(p)
    \/ \E w \in 1..Len(goroutines) : ChanReceive(w)
    \/ \E w \in 1..Len(goroutines) : processRewardsNotifications(w)
    \/ \E w \in 1..Len(goroutines) : RewardForward(w)
    \/ \E w \in 1..Len(goroutines) : runNotificationSender(w)

(***************************************************************************)
(* HandleMetrics: data read from the chain client and the data store.      *)
(***************************************************************************)
Addrs == {"a1", "a2"}
Categories == {1, 2}
Times == 1..MaxTime
CutoffDates == {2}
Pending == "Pending"
Expired == "Expired"
StakeDenom == "trusteak"
StakeAmounts == {1, 2}
ArgumentIDs == {0, 1}
Interest == "Interest"
BackingLike == "BackingLike"
ChallengeLike == "ChallengeLike"
RewardPool == "RewardPool"
BackingReturned == "BackingReturned"
ChallengeReturned == "ChallengeReturned"
NilCoin == -1

\* The first story is of the first category.
StoryInputs(id) ==
    { [ID |-> id, Creator |-> "a1", CategoryID |-> c, Status |-> st, Time |-> t] :
        c \in (IF id = 1 THEN {1} ELSE Categories), st \in {Pending, Expired}, t \in Times }

\* A backing or challenge is recorded on the chain no earlier than its
\* story; the stakes of amount 1 name no known argument, the others name
\* the argument of a1.
StakeInputs(s) ==
    { [Creator |-> cr, Amount |-> am, Time |-> t, ArgumentID |-> am - 1] :
        cr \in Addrs, am \in StakeAmounts, t \in s.Time..MaxTime }

\* The transactions of a user on the first n stories: a reward below or
\* above the amounts staked, and one of each other type.
TxInputs(n) ==
    { [Type |-> k.ty, GroupID |-> g, Amount |-> k.am, Time |-> t] :
        k \in {[ty |-> Interest, am |-> 1], [ty |-> BackingLike, am |-> 1],
               [ty |-> RewardPool, am |-> 1], [ty |-> RewardPool, am |-> 3],
               [ty |-> BackingReturned, am |-> 1]},
        g \in 1..n, t \in Times }

\* ta.argumentResolver: the zero Argument when the id is unknown.
argumentResolver(id) ==
    IF id = 1 THEN [ID |-> 1, Creator |-> "a1"] ELSE [ID |-> 0, Creator |-> ""]

CategoryTitle(cid) == IF cid = 1 THEN "crypto" ELSE "product"

UserNameOf(address) == IF address = "a1" THEN "alice" ELSE "bob"

TxDenom(tx) == IF tx.Type \in {BackingLike, ChallengeLike} THEN "cred" ELSE StakeDenom

(***************************************************************************)
(* MetricsSummary, UserMetrics, CategoryMetrics, Metrics.                  *)
(***************************************************************************)
EmptyMap == [x \in {} |-> 0]

SetKey(m, k, v) == [x \in DOMAIN m \cup {k} |-> IF x = k THEN v ELSE m[x]]

ZeroMetrics ==
    [TotalClaims |-> 0, TotalArguments |-> 0, TotalEndorsementsReceived |-> 0,
     TotalEndorsementsGiven |-> 0, TotalBackings |-> 0, TotalChallenges |-> 0,
     TotalOpenedClaims |-> 0, TotalAmountStaked |-> 0, TotalAmountBacked |-> 0,
     TotalAmountChallenged |-> 0, StakeEarned |-> 0, StakeLost |-> 0,
     TotalAmountAtStake |-> 0, InterestEarned |-> 0]

NewCategoryMetrics(categoryID) ==
    [CategoryID |-> categoryID, CategoryName |-> "", CredEarned |-> 0, Metrics |-> ZeroMetrics]

NewUserMetrics ==
    [UserName |-> "", Balance |-> 0, RunningBalance |-> 0, CategoryMetrics |-> EmptyMap]

\* MetricsSummary.GetUserMetrics: the entry is created when missing.
GetUserMetrics(ms, address) ==
    IF address \in DOMAIN ms THEN ms ELSE SetKey(ms, address, NewUserMetrics)

\* UserMetrics.getMetricsByCategory: the entry is created when missing.
getMetricsByCategory(um, categoryID) ==
    IF categoryID \in DOMAIN um.CategoryMetrics
        THEN um
        ELSE [um EXCEPT !.CategoryMetrics = SetKey(@, categoryID, NewCategoryMetrics(categoryID))]

\* GetUserMetrics(address).getMetricsByCategory(categoryID).Metrics.field += d
AddMetric(ms, address, categoryID, field, d) ==
    LET ms1 == GetUserMetrics(ms, address)
        um == getMetricsByCategory(ms1[address], categoryID)
    IN  [ms1 EXCEPT ![address] =
            [um EXCEPT !.CategoryMetrics[categoryID].Metrics[field] = @ + d]]

increaseArgumentsCount(ms, a, c) == AddMetric(ms, a, c, "TotalArguments", 1)
increaseClaimsCount(ms, a, c) == AddMetric(ms, a, c, "TotalClaims", 1)
increaseEndorsementsGivenCount(ms, a, c) == AddMetric(ms, a, c, "TotalEndorsementsGiven", 1)
increaseEndorsementsReceivedCount(ms, a, c) == AddMetric(ms, a, c, "TotalEndorsementsReceived", 1)
increaseTotalBackings(ms, a, c) == AddMetric(ms, a, c, "TotalBackings", 1)
increaseTotalChallenges(ms, a, c) == AddMetric(ms, a, c, "TotalChallenges", 1)
addAmoutAtStake(ms, a, c, amount) == AddMetric(ms, a, c, "TotalAmountAtStake", amount)

\* Mutant: the amount replaces the total instead of being added to it.
addStakedAmountOverwrite(ms, a, c, amount) ==
    LET ms1 == GetUserMetrics(ms, a)
        um == getMetricsByCategory(ms1[a], c)
    IN  [ms1 EXCEPT ![a] = [um EXCEPT !.CategoryMetrics[c].Metrics.TotalAmountStaked = amount]]

addStakedAmount(ms, a, c, amount) == AddMetric(ms, a, c, "TotalAmountStaked", amount)
addBackedAmount(ms, a, c, amount) == AddMetric(ms, a, c, "TotalAmountBacked", amount)
addChallengedAmount(ms, a, c, amount) == AddMetric(ms, a, c, "TotalAmountChallenged", amount)
addStakeLost(ms, a, c, amount) == AddMetric(ms, a, c, "StakeLost", amount)
addInterestEarned(ms, a, c, amount) == AddMetric(ms, a, c, "InterestEarned", amount)
addStakeEarned(ms, a, c, amount) == AddMetric(ms, a, c, "StakeEarned", amount)

addCredEarned(ms, a, c, amount) ==
    LET ms1 == GetUserMetrics(ms, a)
        um == getMetricsByCategory(ms1[a], c)
    IN  [ms1 EXCEPT ![a] = [um EXCEPT !.CategoryMetrics[c].CredEarned = @ + amount]]

addRunningBalance(ms, a, tx) ==
    IF TxDenom(tx) = StakeDenom
        THEN [ms EXCEPT ![a].RunningBalance = @ + tx.Amount]
        ELSE ms

setTotalOpenedClaims(ms, a, c, openedClaims) ==
    LET ms1 == GetUserMetrics(ms, a)
        um == getMetricsByCategory(ms1[a], c)
    IN  [ms1 EXCEPT ![a] = [um EXCEPT !.CategoryMetrics[c].Metrics.TotalOpenedClaims = openedClaims]]

(***************************************************************************)
(* HandleMetrics: the loop over the stories.                               *)
(***************************************************************************)
\* The three updates every counted stake makes to its creator's metrics.
stakeAmounts(ms, creator, cat, amount, kind) ==
    IF kind = "backing"
        THEN increaseTotalBackings(
                 addBackedAmount(addStakedAmount(ms, creator, cat, amount), creator, cat, amount),
                 creator, cat)
        ELSE increaseTotalChallenges(
                 addChallengedAmount(addStakedAmount(ms, creator, cat, amount), creator, cat, amount),
                 creator, cat)

\* if s.Status == story.Pending { addAmoutAtStake }
stakeAtStake(ms, s, creator, amount) ==
    IF s.Status = Pending THEN addAmoutAtStake(ms, creator, s.CategoryID, amount) ELSE ms

\* The argument of the stake: nothing when it is unknown, else an argument
\* of the creator or an endorsement given.
stakeArgument(ms, creator, cat, argument) ==
    IF argument.ID = 0 THEN ms
    ELSE IF argument.Creator = creator
           THEN increaseArgumentsCount(ms, creator, cat)
           ELSE increaseEndorsementsGivenCount(ms, creator, cat)

\* One iteration of the loop over the backings (kind "backing") or over the
\* challenges (kind "challenge") of story s.
StakeIter(acc, s, st, kind, cutoff) ==
    IF ~(st.Time < cutoff)
        THEN acc
        ELSE [acc EXCEPT
                !.ms = stakeArgument(
                           stakeAtStake(
                               stakeAmounts(@, st.Creator, s.CategoryID, st.Amount, kind),
                               s, st.Creator, st.Amount),
                           st.Creator, s.CategoryID, argumentResolver(st.ArgumentID)),
                !.map = SetKey(@, <<st.Creator, s.ID>>, st.Amount),
                !.backingAmount = IF kind = "backing" THEN @ + st.Amount ELSE @,
                !.challengeAmount = IF kind = "challenge" THEN @ + st.Amount ELSE @]

RECURSIVE StakesPass(_, _, _, _, _)
StakesPass(acc, s, stakes, kind, cutoff) ==
    IF stakes = <<>> THEN acc
    ELSE StakesPass(StakeIter(acc, s, Head(stakes), kind, cutoff), s, Tail(stakes), kind, cutoff)

\* for _, b := range backings { ...addStakeLost(s.CategoryID, b.Amount()) }
RECURSIVE StakeLostPass(_, _, _)
StakeLostPass(ms, s, stakes) ==
    IF stakes = <<>> THEN ms
    ELSE StakeLostPass(addStakeLost(ms, Head(stakes).Creator, s.CategoryID, Head(stakes).Amount),
                       s, Tail(stakes))

\* The loop over the backings, then the loop over the challenges.
StoryStakes(st, s, backings, challenges, cutoff) ==
    StakesPass(
        StakesPass([ms |-> increaseClaimsCount(st.ms, s.Creator, s.CategoryID),
                    map |-> st.map, backingAmount |-> 0, challengeAmount |-> 0],
                   s, backings, "backing", cutoff),
        s, challenges, "challenge", cutoff)

lostBackings(ms, c, s, backings) ==
    IF c.backingAmount < c.challengeAmount THEN StakeLostPass(ms, s, backings) ELSE ms

lostChallenges(ms, c, s, challenges) ==
    IF c.challengeAmount < c.backingAmount THEN StakeLostPass(ms, s, challenges) ELSE ms

\* After the two loops: nothing more for a pending story, else the stakes
\* of the side with the smaller amount are lost.
StoryLost(c, s, backings, challenges) ==
    IF s.Status = Pending THEN c.ms
    ELSE lostChallenges(lostBackings(c.ms, c, s, backings), c, s, challenges)

StoryResult(c, st, s, backings, challenges) ==
    [ms |-> StoryLost(c, s, backings, challenges),
     map |-> c.map,
     mapped |-> st.mapped \cup {s.ID}]

\* One iteration of the loop over the stories; st holds the summary, the
\* stake side map and the keys of mappedStories.
StoryIter(st, s, backings, challenges, cutoff) ==
    IF ~(s.Time < cutoff)
        THEN st
        ELSE StoryResult(StoryStakes(st, s, backings, challenges, cutoff),
                         st, s, backings, challenges)

(***************************************************************************)
(* HandleMetrics: the loop over the user profiles.                         *)
(***************************************************************************)
NoStoryReward == [CategoryID |-> 0, Reward |-> NilCoin, StakeReturned |-> NilCoin]

\* One iteration of the loop over the transactions of userAddress; acc
\* holds the summary and userStoryResults.
TxIter(acc, stories, mapped, userAddress, tx, cutoff) ==
    IF ~(tx.Time < cutoff)
        THEN acc
        ELSE
            LET ms1 == addRunningBalance(acc.ms, userAddress, tx) IN
            IF tx.GroupID \notin mapped
                THEN [acc EXCEPT !.ms = ms1]
                ELSE
                    LET s == stories[tx.GroupID] IN
                    CASE tx.Type = Interest ->
                            [acc EXCEPT !.ms = addInterestEarned(ms1, userAddress, s.CategoryID, tx.Amount)]
                      [] tx.Type \in {BackingLike, ChallengeLike} ->
                            [acc EXCEPT !.ms = increaseEndorsementsReceivedCount(
                                addCredEarned(ms1, userAddress, s.CategoryID, tx.Amount),
                                userAddress, s.CategoryID)]
                      [] tx.Type \in {RewardPool, BackingReturned, ChallengeReturned} ->
                            IF s.Status # Expired
                                THEN [acc EXCEPT !.ms = ms1]
                                ELSE
                                    LET r0 == IF tx.GroupID \in DOMAIN acc.results
                                                THEN acc.results[tx.GroupID]
                                                ELSE [NoStoryReward EXCEPT !.CategoryID = s.CategoryID]
                                        r1 == IF tx.Type = RewardPool
                                                THEN [r0 EXCEPT !.Reward = tx.Amount]
                                                ELSE [r0 EXCEPT !.StakeReturned = tx.Amount]
                                    IN  [ms |-> ms1, results |-> SetKey(acc.results, tx.GroupID, r1)]
                      [] OTHER -> [acc EXCEPT !.ms = ms1]

RECURSIVE TxsPass(_, _, _, _, _, _)
TxsPass(acc, stories, mapped, userAddress, txs, cutoff) ==
    IF txs = <<>> THEN acc
    ELSE TxsPass(TxIter(acc, stories, mapped, userAddress, Head(txs), cutoff),
                 stories, mapped, userAddress, Tail(txs), cutoff)

\* Mutant: the zero and negative checks on the net reward are missing.
netRewardUnchecked(storyResult, map, userAddress, storyID) ==
    IF storyResult.Reward = NilCoin THEN 0
    ELSE IF storyResult.StakeReturned # NilCoin THEN storyResult.Reward
    ELSE IF <<userAddress, storyID>> \notin DOMAIN map THEN 0
    ELSE storyResult.Reward - map[<<userAddress, storyID>>]

\* What one entry of userStoryResults adds to StakeEarned.
netReward(storyResult, map, userAddress, storyID) ==
    IF storyResult.Reward = NilCoin THEN 0
    ELSE IF storyResult.StakeReturned # NilCoin THEN storyResult.Reward
    ELSE IF <<userAddress, storyID>> \notin DOMAIN map THEN 0
    ELSE LET reward == storyResult.Reward - map[<<userAddress, storyID>>] IN
         IF reward = 0 THEN 0
         ELSE IF reward < 0 THEN 0
         ELSE reward

\* The loop over userStoryResults; a story that adds nothing is skipped
\* before addStakeEarned is reached.
RECURSIVE StoryResultsPass(_, _, _, _, _)
StoryResultsPass(ms, results, ids, map, userAddress) ==
    IF ids = {} THEN ms
    ELSE LET storyID == CHOOSE x \in ids : TRUE
             r == results[storyID]
             reward == netReward(r, map, userAddress, storyID)
         IN  StoryResultsPass(
                 IF reward = 0 THEN ms ELSE addStakeEarned(ms, userAddress, r.CategoryID, reward),
                 results, ids \ {storyID}, map, userAddress)

RECURSIVE CategoriesPass(_, _, _)
CategoriesPass(ms, userAddress, cats) ==
    IF cats = {} THEN ms
    ELSE LET cID == CHOOSE x \in cats : TRUE
             um == getMetricsByCategory(ms[userAddress], cID)
         IN  CategoriesPass(
                 [ms EXCEPT ![userAddress] =
                     [um EXCEPT !.CategoryMetrics[cID].CredEarned = 0,
                                !.CategoryMetrics[cID].CategoryName = CategoryTitle(cID)]],
                 userAddress, cats \ {cID})

\* One iteration of the loop over the profiles.
UserIter(ms, map, mapped, stories, userAddress, txs, cutoff) ==
    LET ms1 == GetUserMetrics(ms, userAddress)
        ms2 == [ms1 EXCEPT ![userAddress].Balance = 0, ![userAddress].RunningBalance = 0]
        ms3 == CategoriesPass(ms2, userAddress, Categories)
        ms4 == [ms3 EXCEPT ![userAddress].UserName = UserNameOf(userAddress)]
        t == TxsPass([ms |-> ms4, results |-> EmptyMap], stories, mapped, userAddress, txs, cutoff)
    IN  [ms |-> StoryResultsPass(t.ms, t.results, DOMAIN t.results, map, userAddress),
         results |-> t.results]

(***************************************************************************)
(* HandleMetrics as a state machine.                                       *)
(***************************************************************************)
BeforeCutoff(items, cutoff) == SelectSeq(items, LAMBDA x : x.Time < cutoff)

RECURSIVE SumAmounts(_)
SumAmounts(items) == IF items = <<>> THEN 0 ELSE Head(items).Amount + SumAmounts(Tail(items))

SeqsUpTo(S, n) == UNION {[1..k -> S] : k \in 0..n}

UserLists == {<<"a1">>, <<"a1", "a2">>}

\* The requests explored: many stories, many stakes or many transactions.
Budgets ==
    { [stories |-> MaxStories, stakes |-> 1, txs |-> 1],
      [stories |-> 1, stakes |-> MaxStakes, txs |-> 0],
      [stories |-> 1, stakes |-> 1, txs |-> MaxTxs] }

InitMetricsVars ==
    /\ hmPc = "start"
    /\ beforeDate \in CutoffDates
    /\ hmStories = <<>>
    /\ mappedStories = {}
    /\ mapUserStakeByStoryID = EmptyMap
    /\ metricsSummary = EmptyMap
    /\ hmUsers = <<>>
    /\ hmResponse = <<>>
    /\ refSummary = EmptyMap
    /\ observedStaked = [k \in Addrs \X Categories |-> 0]
    /\ lastResults = [user |-> "", results |-> {}]
    /\ hmBudget = [stories |-> 0, stakes |-> 0, txs |-> 0]

\* ParseForm, the date parameter, the stories query and the categories:
\* each failure renders an error and returns.
HMStart ==
    /\ hmPc = "start"
    /\ \E code \in {0, 400, 500} :
         IF code = 0
            THEN /\ hmPc' = "stories"
                 /\ UNCHANGED hmResponse
            ELSE /\ hmPc' = "done"
                 /\ hmResponse' = Append(hmResponse, [kind |-> "error", code |-> code])
    /\ hmBudget' \in Budgets
    /\ UNCHANGED <<beforeDate, hmStories, mappedStories, mapUserStakeByStoryID, metricsSummary,
                   hmUsers, refSummary, observedStaked, lastResults>>
    /\ UNCHANGED otherThanMetrics

\* The next story of the slice, with the backings and challenges that the
\* resolvers return for it.
HMStory ==
    /\ hmPc = "stories"
    /\ hmBudget.stories > 0
    /\ \E s \in StoryInputs(Len(hmStories) + 1) :
       \E nb \in 0..(IF s.Time < beforeDate THEN hmBudget.stakes ELSE 0) :
       \E nc \in 0..(IF s.Time < beforeDate THEN hmBudget.stakes - nb ELSE 0) :
       \E backings \in [1..nb -> StakeInputs(s)], challenges \in [1..nc -> StakeInputs(s)] :
         LET st == StoryIter([ms |-> metricsSummary, map |-> mapUserStakeByStoryID,
                              mapped |-> mappedStories], s, backings, challenges, beforeDate)
             ref == StoryIter([ms |-> refSummary, map |-> mapUserStakeByStoryID,
                               mapped |-> mappedStories], s,
                              BeforeCutoff(backings, beforeDate),
                              BeforeCutoff(challenges, beforeDate), beforeDate)
         IN  /\ hmStories' = Append(hmStories, s)
             /\ metricsSummary' = st.ms
             /\ mapUserStakeByStoryID' = st.map
             /\ mappedStories' = st.mapped
             /\ refSummary' = ref.ms
             /\ observedStaked' =
                   [k \in Addrs \X Categories |->
                      observedStaked[k] +
                      (IF k[2] = s.CategoryID
                         THEN SumAmounts(SelectSeq(backings \o challenges,
                                LAMBDA x : x.Creator = k[1] /\ x.Time < beforeDate))
                         ELSE 0)]
             /\ hmBudget' = [hmBudget EXCEPT !.stories = @ - 1, !.stakes = @ - nb - nc]
    /\ UNCHANGED <<hmPc, beforeDate, hmUsers, hmResponse, lastResults>>
    /\ UNCHANGED otherThanMetrics

\* ta.DBClient.FindAll(&users): an error is rendered and the handler goes
\* on with the empty slice.
HMFindAll ==
    /\ hmPc = "stories"
    /\ hmPc' = "users"
    /\ \/ /\ hmUsers' = <<>>
          /\ hmResponse' = Append(hmResponse, [kind |-> "error", code |-> 500])
       \/ /\ hmUsers' \in UserLists
          /\ UNCHANGED hmResponse
    /\ UNCHANGED <<beforeDate, hmStories, mappedStories, mapUserStakeByStoryID, metricsSummary,
                   refSummary, observedStaked, lastResults, hmBudget>>
    /\ UNCHANGED otherThanMetrics

\* The next profile, with the transactions the resolver returns for it.
HMUser ==
    /\ hmPc = "users"
    /\ hmUsers # <<>>
    /\ \E txs \in SeqsUpTo(TxInputs(Len(hmStories)), hmBudget.txs) :
         LET userAddress == Head(hmUsers)
             u == UserIter(metricsSummary, mapUserStakeByStoryID, mappedStories, hmStories,
                           userAddress, txs, beforeDate)
             ref == UserIter(refSummary, mapUserStakeByStoryID, mappedStories, hmStories,
                             userAddress, BeforeCutoff(txs, beforeDate), beforeDate)
         IN  /\ metricsSummary' = u.ms
             /\ refSummary' = ref.ms
             /\ lastResults' =
                   [user |-> userAddress,
                    results |->
                      { [story |-> id, cat |-> u.results[id].CategoryID,
                         reward |-> u.results[id].Reward,
                         returned |-> u.results[id].StakeReturned,
                         staked |-> IF <<userAddress, id>> \in DOMAIN mapUserStakeByStoryID
                                      THEN mapUserStakeByStoryID[<<userAddress, id>>]
                                      ELSE NilCoin] :
                        id \in DOMAIN u.results }]
             /\ hmBudget' = [hmBudget EXCEPT !.txs = @ - Len(txs)]
    /\ hmUsers' = Tail(hmUsers)
    /\ UNCHANGED <<hmPc, beforeDate, hmStories, mappedStories, mapUserStakeByStoryID, hmResponse,
                   observedStaked>>
    /\ UNCHANGED otherThanMetrics

OpenedClaimsRows == { <<>>, <<[Address |-> "a2", CategoryID |-> 1, OpenedClaims |-> 1]>> }

\* ta.DBClient.OpenedClaimsSummary, the loop over its rows and render.JSON;
\* an error of the query is rendered and the handler goes on.
HMOpenedClaims ==
    /\ hmPc = "users"
    /\ hmUsers = <<>>
    /\ hmPc' = "done"
    /\ \/ /\ hmResponse' = hmResponse \o <<[kind |-> "error", code |-> 500],
                                           [kind |-> "json", code |-> 200]>>
          /\ UNCHANGED <<metricsSummary, refSummary>>
       \/ \E rows \in OpenedClaimsRows :
          /\ hmResponse' = Append(hmResponse, [kind |-> "json", code |-> 200])
          /\ IF rows = <<>>
               THEN UNCHANGED <<metricsSummary, refSummary>>
               ELSE /\ metricsSummary' = setTotalOpenedClaims(metricsSummary, rows[1].Address,
                                             rows[1].CategoryID, rows[1].OpenedClaims)
                    /\ refSummary' = setTotalOpenedClaims(refSummary, rows[1].Address,
                                             rows[1].CategoryID, rows[1].OpenedClaims)
    /\ UNCHANGED <<beforeDate, hmStories, mappedStories, mapUserStakeByStoryID, hmUsers,
                   observedStaked, lastResults, hmBudget>>
    /\ UNCHANGED otherThanMetrics

NextMetrics ==
    \/ HMStart
    \/ HMStory
    \/ HMFindAll
    \/ HMUser
    \/ HMOpenedClaims

(***************************************************************************)
(* The CSV reports: the ResponseWriter and the csv.Writer on top of it.    *)
(***************************************************************************)
\* render.Error writes straight to the ResponseWriter.
RenderError(out, msg, code) == Append(out, [kind |-> "error", code |-> code, fields |-> <<msg>>])

\* csv.Writer.Write appends the record to the writer's buffer; kind is a
\* ghost tag telling the header from the data rows.
CsvWrite(buf, kind, record) == Append(buf, [kind |-> kind, code |-> 200, fields |-> record])

TimeString(t) == IF t = 0 THEN "" ELSE ToString(t)

JobTime == "job"

Communities == <<[ID |-> "c1", Name |-> "Crypto"], [ID |-> "c2", Name |-> "Product"]>>

ClaimInputs(id) ==
    { [ID |-> id, CommunityID |-> "c1", Creator |-> "a1", Body |-> "body", CreatedTime |-> t] :
        t \in Times }

(***************************************************************************)
(* HandleClaimMetrics.                                                     *)
(***************************************************************************)
StakeBacking == "Backing"
StakeChallenge == "Challenge"
StakeUpvote == "Upvote"

ClaimMetricsHeader ==
    <<"job_date_time", "date", "created_date", "flagged", "id", "community_id", "claim_name",
      "arguments_created", "agrees_given",
      "staked",
      "staked_backed", "staked_argument_backed", "staked_agree_backed",
      "staked_challenged", "staked_argument_challenged", "staked_agree_challenged",
      "user_views", "unique_user_views", "anon_views", "unique_anon_views",
      "user_arguments_views", "unique_user_arguments_views", "anon_arguments_views",
      "unique_anon_arguments_views",
      "replies",
      "last_activiy_argument",
      "last_activity_agree">>

\* ta.getClaimArguments: an error, or the arguments of the claim.
ClaimArgumentsResults ==
    {[err |-> TRUE, arguments |-> <<>>]} \cup
    {[err |-> FALSE, arguments |-> as] :
        as \in {<<>>} \cup
               { <<[ID |-> 1, Creator |-> "a1", StakeType |-> ty, CreatedTime |-> t]>> :
                   ty \in {StakeBacking, StakeChallenge}, t \in Times } }

ClaimStakeInputs ==
    { [ArgumentID |-> a, Creator |-> "a2", Type |-> ty, Amount |-> 5, CreatedTime |-> t,
       CommunityID |-> "c1", Expired |-> FALSE, EndTime |-> t + 1] :
        a \in {1, 7}, ty \in {StakeUpvote, StakeBacking}, t \in Times }

\* db.ClaimViewsStats / db.ClaimRepliesStats rows of a claim; the zero
\* struct when the claim has none.
getClaimViewsStats(claimID) ==
    IF claimID = 1
       THEN [UserViews |-> 4, UniqueUserViews |-> 2, AnonViews |-> 3, UniqueAnonViews |-> 1,
             UserArgumentsViews |-> 2, UniqueUserArgumentsViews |-> 1,
             AnonArgumentsViews |-> 1, UniqueAnonArgumentsViews |-> 1]
       ELSE [UserViews |-> 0, UniqueUserViews |-> 0, AnonViews |-> 0, UniqueAnonViews |-> 0,
             UserArgumentsViews |-> 0, UniqueUserArgumentsViews |-> 0,
             AnonArgumentsViews |-> 0, UniqueAnonArgumentsViews |-> 0]

getClaimRepliesStats(claimID) == IF claimID = 1 THEN [Replies |-> 2] ELSE [Replies |-> 0]

flaggedClaimsMappings(claimID) == 0

Max(a, b) == IF a < b THEN b ELSE a

\* mapArguments[argument.ID] = idx, for every argument of the claim.
mapArguments(arguments) ==
    [id \in {arguments[i].ID : i \in 1..Len(arguments)} |->
        CHOOSE i \in 1..Len(arguments) :
            /\ arguments[i].ID = id
            /\ \A j \in 1..Len(arguments) : arguments[j].ID = id => j <= i]

ZeroClaimTotals ==
    [errs |-> <<>>, panic |-> FALSE, agreesGiven |-> 0,
     totalBacked |-> 0, totalBackedAgree |-> 0, totalBackedArgument |-> 0,
     totalChallenged |-> 0, totalChallengedAgree |-> 0, totalChallengedArgument |-> 0,
     lastActivityAgree |-> 0]

\* One iteration of the loop over the stakes of a claim.  A missing
\* argument id renders an error and the loop body goes on with index 0:
\* arguments[0] panics when the claim has no argument at all.
ClaimStakeIter(acc, arguments, stake, cutoff) ==
    IF acc.panic \/ ~(stake.CreatedTime < cutoff)
        THEN acc
        ELSE
            LET ok == stake.ArgumentID \in DOMAIN mapArguments(arguments)
                i == IF ok THEN mapArguments(arguments)[stake.ArgumentID] ELSE 1
                acc1 == IF ok THEN acc
                        ELSE [acc EXCEPT !.errs = RenderError(@, "unable to find argument", 500)]
            IN  IF arguments = <<>>
                  THEN [acc1 EXCEPT !.panic = TRUE]
                  ELSE
                    LET a == arguments[i]
                        acc2 == IF stake.Type = StakeUpvote
                                  THEN [acc1 EXCEPT !.lastActivityAgree = Max(@, stake.CreatedTime)]
                                  ELSE acc1
                    IN  IF a.StakeType = StakeBacking /\ stake.Type = StakeUpvote
                          THEN [acc2 EXCEPT !.totalBacked = @ + stake.Amount,
                                            !.totalBackedAgree = @ + stake.Amount,
                                            !.agreesGiven = @ + 1]
                        ELSE IF a.StakeType = StakeChallenge /\ stake.Type = StakeUpvote
                          THEN [acc2 EXCEPT !.totalChallenged = @ + stake.Amount,
                                            !.totalChallengedAgree = @ + stake.Amount,
                                            !.agreesGiven = @ + 1]
                        ELSE IF a.StakeType = StakeBacking
                          THEN [acc2 EXCEPT !.totalBacked = @ + stake.Amount,
                                            !.totalBackedArgument = @ + stake.Amount]
                        ELSE IF a.StakeType = StakeChallenge
                          THEN [acc2 EXCEPT !.totalChallenged = @ + stake.Amount,
                                            !.totalChallengedArgument = @ + stake.Amount]
                        ELSE acc2

RECURSIVE ClaimStakesPass(_, _, _, _)
ClaimStakesPass(acc, arguments, stakes, cutoff) ==
    IF stakes = <<>> THEN acc
    ELSE ClaimStakesPass(ClaimStakeIter(acc, arguments, Head(stakes), cutoff),
                         arguments, Tail(stakes), cutoff)

ClaimMetricsRow(claim, arguments, t, cutoff) ==
    LET before == SelectSeq(arguments, LAMBDA a : a.CreatedTime < cutoff)
        totalArguments == Len(before)
        lastActivityArgument ==
            IF before = <<>> THEN 0
            ELSE CHOOSE m \in {before[i].CreatedTime : i \in 1..Len(before)} :
                    \A i \in 1..Len(before) : before[i].CreatedTime <= m
        viewsStats == getClaimViewsStats(claim.ID)
        repliesStats == getClaimRepliesStats(claim.ID)
    IN  <<JobTime,
          TimeString(cutoff),
          TimeString(claim.CreatedTime),
          ToString(flaggedClaimsMappings(claim.ID)),
          ToString(claim.ID),
          claim.CommunityID,
          claim.Body,
          ToString(totalArguments),
          ToString(t.agreesGiven),
          ToString(t.totalBacked + t.totalChallenged),
          ToString(t.totalBacked),
          ToString(t.totalBackedArgument),
          ToString(t.totalBackedAgree),
          ToString(t.totalChallenged),
          ToString(t.totalChallengedArgument),
          ToString(t.totalChallengedAgree),
          ToString(viewsStats.UserViews),
          ToString(viewsStats.UniqueUserViews),
          ToString(viewsStats.AnonViews),
          ToString(viewsStats.UniqueAnonViews),
          ToString(viewsStats.UserArgumentsViews),
          ToString(viewsStats.UniqueUserArgumentsViews),
          ToString(viewsStats.AnonArgumentsViews),
          ToString(viewsStats.UniqueAnonArgumentsViews),
          ToString(repliesStats.Replies),
          TimeString(lastActivityArgument),
          TimeString(t.lastActivityAgree)>>

(***************************************************************************)
(* HandleUsersMetrics: Metrics, UserCommunityMetrics.                      *)
(***************************************************************************)
UsersMetricsHeader ==
    <<"job_date_time", "date", "address", "username", "balance",
      "community", "community_name", "stake_earned",
      "claims_created", "claims_opened", "unique_claims_opened",
      "arguments_created", "agrees_received", "agrees_given",
      "staked", "staked_arguments", "staked_agrees",
      "interest_argument_creation", "interest_agree_received", "interest_agree_given",
      "reward_not_helpful",
      "interest_slashed", "stake_slashed", "pending_stake",
      "replies",
      "arguments_opened", "unique_arguments_opened">>

ZeroUserCommunityMetrics ==
    [Claims |-> 0, Arguments |-> 0, AgreesGiven |-> 0, AgreesReceived |-> 0,
     Staked |-> 0, StakedArgument |-> 0, StakedAgree |-> 0,
     InterestArgumentCreated |-> 0, InterestAgreeReceived |-> 0, InterestAgreeGiven |-> 0,
     CuratorReward |-> 0, InterestSlashed |-> 0, StakeSlashed |-> 0,
     ClaimsOpened |-> 0, UniqueClaimsOpened |-> 0, ArgumentsOpened |-> 0,
     UniqueArgumentsOpened |-> 0, Replies |-> 0, EarnedCoin |-> 0, PendingStake |-> 0]

\* Metrics.getUserCommunityMetric: the entry of (address, community) is
\* created when missing.
getUserCommunityMetric(m, address, communityID) ==
    IF <<address, communityID>> \in DOMAIN m
        THEN m
        ELSE SetKey(m, <<address, communityID>>, ZeroUserCommunityMetrics)

UcmOf(m, address, communityID) == getUserCommunityMetric(m, address, communityID)[<<address, communityID>>]

UcmAdd(m, address, communityID, field, d) ==
    [getUserCommunityMetric(m, address, communityID) EXCEPT ![<<address, communityID>>][field] = @ + d]

UcmSet(m, address, communityID, field, v) ==
    [getUserCommunityMetric(m, address, communityID) EXCEPT ![<<address, communityID>>][field] = v]

BetaReleaseDate == 1

notExpiredAtIgnoringBeta(date, created, end) ==
    IF date < created THEN FALSE
    ELSE IF date > end THEN FALSE
    ELSE IF ~(created < end) THEN FALSE
    ELSE TRUE

notExpiredAt(date, created, end) ==
    IF created < BetaReleaseDate THEN FALSE
    ELSE IF date < created THEN FALSE
    ELSE IF date > end THEN FALSE
    ELSE IF ~(created < end) THEN FALSE
    ELSE TRUE

\* Upvotes still running, and backings that expired after or before the
\* date asked for.
UsersMetricsStakeInputs ==
    { [ArgumentID |-> a, Creator |-> "a2", Type |-> k.ty, Amount |-> 5, CreatedTime |-> t,
       CommunityID |-> "c1", Expired |-> k.ex, EndTime |-> t + k.len] :
        a \in {1, 7}, t \in Times,
        k \in {[ty |-> StakeUpvote, ex |-> FALSE, len |-> 1],
               [ty |-> StakeBacking, ex |-> TRUE, len |-> 1],
               [ty |-> StakeBacking, ex |-> TRUE, len |-> 0]} }

RECURSIVE UsersArgumentsPass(_, _, _, _)
UsersArgumentsPass(acc, claim, arguments, cutoff) ==
    IF arguments = <<>> THEN acc
    ELSE LET argument == Head(arguments)
             acc1 == IF ~(argument.CreatedTime < cutoff) THEN acc
                     ELSE [m |-> UcmAdd(acc.m, argument.Creator, claim.CommunityID, "Arguments", 1),
                           argumentIDCreator |-> SetKey(acc.argumentIDCreator, argument.ID,
                                                        argument.Creator)]
         IN  UsersArgumentsPass(acc1, claim, Tail(arguments), cutoff)

UsersStakeIter(m, argumentIDCreator, claim, stake, cutoff) ==
    IF ~(stake.CreatedTime < cutoff) THEN m
    ELSE
        LET m0 == getUserCommunityMetric(m, stake.Creator, claim.CommunityID)
            m1 == IF ~stake.Expired \/ notExpiredAt(cutoff, stake.CreatedTime, stake.EndTime)
                    THEN UcmAdd(m0, stake.Creator, claim.CommunityID, "PendingStake", stake.Amount)
                    ELSE m0
            receiver == IF stake.ArgumentID \in DOMAIN argumentIDCreator
                           THEN argumentIDCreator[stake.ArgumentID] ELSE ""
            m2 == IF stake.Type = StakeUpvote
                    THEN UcmAdd(UcmAdd(UcmAdd(m1, stake.Creator, claim.CommunityID,
                                              "StakedAgree", stake.Amount),
                                       receiver, stake.CommunityID, "AgreesReceived", 1),
                                stake.Creator, claim.CommunityID, "AgreesGiven", 1)
                    ELSE UcmAdd(m1, stake.Creator, claim.CommunityID, "StakedArgument", stake.Amount)
        IN  UcmAdd(m2, stake.Creator, claim.CommunityID, "Staked", stake.Amount)

RECURSIVE UsersStakesPass(_, _, _, _, _)
UsersStakesPass(m, argumentIDCreator, claim, stakes, cutoff) ==
    IF stakes = <<>> THEN m
    ELSE UsersStakesPass(UsersStakeIter(m, argumentIDCreator, claim, Head(stakes), cutoff),
                         argumentIDCreator, claim, Tail(stakes), cutoff)

\* The body of the loop over the claims.
UsersClaimIter(m, claim, arguments, stakes, cutoff) ==
    IF ~(claim.CreatedTime < cutoff) THEN m
    ELSE LET a == UsersArgumentsPass(
                     [m |-> UcmAdd(m, claim.Creator, claim.CommunityID, "Claims", 1),
                      argumentIDCreator |-> EmptyMap],
                     claim, arguments, cutoff)
         IN  UsersStakesPass(a.m, a.argumentIDCreator, claim, stakes, cutoff)

TransactionBacking == "TransactionBacking"
TransactionChallenge == "TransactionChallenge"
TransactionUpvote == "TransactionUpvote"
TransactionGift == "TransactionGift"
TransactionCuratorReward == "TransactionCuratorReward"
TransactionInterestArgumentCreation == "TransactionInterestArgumentCreation"
TransactionInterestUpvoteReceived == "TransactionInterestUpvoteReceived"
TransactionInterestUpvoteGiven == "TransactionInterestUpvoteGiven"
TransactionInterestArgumentCreationSlashed == "TransactionInterestArgumentCreationSlashed"
TransactionInterestUpvoteReceivedSlashed == "TransactionInterestUpvoteReceivedSlashed"
TransactionInterestUpvoteGivenSlashed == "TransactionInterestUpvoteGivenSlashed"
TransactionStakeCreatorSlashed == "TransactionStakeCreatorSlashed"
TransactionStakeCuratorSlashed == "TransactionStakeCuratorSlashed"

trackedTransactions ==
    {TransactionBacking, TransactionChallenge, TransactionCuratorReward,
     TransactionInterestArgumentCreation, TransactionInterestUpvoteReceived,
     TransactionInterestUpvoteGiven,
     TransactionInterestArgumentCreationSlashed, TransactionInterestUpvoteReceivedSlashed,
     TransactionInterestUpvoteGivenSlashed,
     TransactionStakeCreatorSlashed, TransactionStakeCuratorSlashed}

\* TransactionType.AllowedForDeduction of the chain's bank module.
AllowedForDeduction(type) ==
    type \in {TransactionBacking, TransactionChallenge, TransactionUpvote,
              TransactionInterestArgumentCreationSlashed,
              TransactionInterestUpvoteReceivedSlashed,
              TransactionInterestUpvoteGivenSlashed,
              TransactionStakeCreatorSlashed, TransactionStakeCuratorSlashed}

UsersTxInputs ==
    { [ID |-> 1, Type |-> k.ty, Amount |-> 2, CommunityID |-> k.c, CreatedTime |-> t] :
        t \in Times,
        k \in {[ty |-> TransactionBacking, c |-> "c1"], [ty |-> TransactionBacking, c |-> ""],
               [ty |-> TransactionGift, c |-> ""],
               [ty |-> TransactionInterestArgumentCreation, c |-> "c1"]} }

\* One iteration of the loop over the transactions of a user; err is set
\* when a tracked transaction has no community id (the handler returns).
UsersTxIter(acc, address, transaction, cutoff) ==
    IF acc.err \/ ~(transaction.CreatedTime < cutoff) THEN acc
    ELSE
        LET amount == IF AllowedForDeduction(transaction.Type)
                         THEN 0 - transaction.Amount ELSE transaction.Amount
            acc1 == [acc EXCEPT !.balance = @ + amount]
            c == transaction.CommunityID
            m0 == getUserCommunityMetric(acc.m, address, c)
            ty == transaction.Type
        IN  IF ty \notin trackedTransactions THEN acc1
            ELSE IF c = "" THEN [acc1 EXCEPT !.err = TRUE]
            ELSE [acc1 EXCEPT !.m =
                CASE ty = TransactionInterestArgumentCreation ->
                        UcmAdd(UcmAdd(m0, address, c, "InterestArgumentCreated", amount),
                               address, c, "EarnedCoin", amount)
                  [] ty = TransactionInterestUpvoteReceived ->
                        UcmAdd(UcmAdd(m0, address, c, "InterestAgreeReceived", amount),
                               address, c, "EarnedCoin", amount)
                  [] ty = TransactionInterestUpvoteGiven ->
                        UcmAdd(UcmAdd(m0, address, c, "InterestAgreeGiven", amount),
                               address, c, "EarnedCoin", amount)
                  [] ty = TransactionCuratorReward ->
                        UcmAdd(m0, address, c, "CuratorReward", amount)
                  [] ty \in {TransactionInterestArgumentCreationSlashed,
                             TransactionInterestUpvoteReceivedSlashed,
                             TransactionInterestUpvoteGivenSlashed} ->
                        UcmAdd(UcmAdd(m0, address, c, "InterestSlashed", amount),
                               address, c, "EarnedCoin", 0 - amount)
                  [] ty \in {TransactionStakeCreatorSlashed, TransactionStakeCuratorSlashed} ->
                        UcmAdd(m0, address, c, "StakeSlashed", amount)
                  [] OTHER -> m0]

RECURSIVE UsersTxsPass(_, _, _, _)
UsersTxsPass(acc, address, transactions, cutoff) ==
    IF transactions = <<>> THEN acc
    ELSE UsersTxsPass(UsersTxIter(acc, address, Head(transactions), cutoff),
                      address, Tail(transactions), cutoff)

\* Mutant: the append of unique_arguments_opened is missing.
UsersMetricsRecordShort(rowStart, community, m) ==
    rowStart \o <<community.ID, community.Name, ToString(m.EarnedCoin), ToString(m.Claims),
                  ToString(m.ClaimsOpened), ToString(m.UniqueClaimsOpened),
                  ToString(m.Arguments), ToString(m.AgreesReceived), ToString(m.AgreesGiven),
                  ToString(m.Staked), ToString(m.StakedArgument), ToString(m.StakedAgree),
                  ToString(m.InterestArgumentCreated), ToString(m.InterestAgreeReceived),
                  ToString(m.InterestAgreeGiven), ToString(m.CuratorReward),
                  ToString(m.InterestSlashed), ToString(m.StakeSlashed),
                  ToString(m.PendingStake), ToString(m.Replies), ToString(m.ArgumentsOpened)>>

\* The record of one (user, community) pair: rowStart and the appends.
UsersMetricsRecord(rowStart, community, m) ==
    rowStart \o <<community.ID, community.Name, ToString(m.EarnedCoin), ToString(m.Claims),
                  ToString(m.ClaimsOpened), ToString(m.UniqueClaimsOpened),
                  ToString(m.Arguments), ToString(m.AgreesReceived), ToString(m.AgreesGiven),
                  ToString(m.Staked), ToString(m.StakedArgument), ToString(m.StakedAgree),
                  ToString(m.InterestArgumentCreated), ToString(m.InterestAgreeReceived),
                  ToString(m.InterestAgreeGiven), ToString(m.CuratorReward),
                  ToString(m.InterestSlashed), ToString(m.StakeSlashed),
                  ToString(m.PendingStake), ToString(m.Replies), ToString(m.ArgumentsOpened),
                  ToString(m.UniqueArgumentsOpened)>>

\* The loop over the communities for one user: one csvw.Write per community.
RECURSIVE UsersCommunitiesPass(_, _, _, _)
UsersCommunitiesPass(acc, rowStart, address, communities) ==
    IF communities = <<>> THEN acc
    ELSE LET community == Head(communities)
             m1 == getUserCommunityMetric(acc.m, address, community.ID)
             record == UsersMetricsRecord(rowStart, community, m1[<<address, community.ID>>])
         IN  UsersCommunitiesPass([m |-> m1, buf |-> CsvWrite(acc.buf, "row", record)],
                                  rowStart, address, Tail(communities))

(***************************************************************************)
(* HandleUserClaims and HandleUserBase.                                    *)
(***************************************************************************)
UserClaimsHeader ==
    <<"job_date_time", "date", "claim_id", "claim", "community", "address", "creation_date",
      "participants">>

UserClaimsStakeInputs ==
    { [ArgumentID |-> 1, Creator |-> cr, Type |-> StakeBacking, Amount |-> 5, CreatedTime |-> t,
       CommunityID |-> "c1", Expired |-> FALSE, EndTime |-> t + 1] :
        cr \in Addrs, t \in 0..MaxTime }

CommentInputs == { [Creator |-> cr, CreatedAt |-> t] : cr \in Addrs, t \in 0..MaxTime }

Creators(items) == {items[i].Creator : i \in 1..Len(items)}

UserClaimsRow(claim, stakes, comments, targetDate) ==
    LET previousDay == targetDate - 1
        participantsTarget ==
            Creators(SelectSeq(stakes, LAMBDA s : s.CreatedTime < targetDate)) \cup
            Creators(SelectSeq(comments, LAMBDA c : c.CreatedAt < targetDate))
        participantsPreviousDay ==
            Creators(SelectSeq(stakes, LAMBDA s : s.CreatedTime < targetDate
                                                   /\ s.CreatedTime < previousDay)) \cup
            Creators(SelectSeq(comments, LAMBDA c : c.CreatedAt < targetDate
                                                     /\ c.CreatedAt < previousDay))
    IN  <<JobTime, TimeString(targetDate), ToString(claim.ID), claim.Body, claim.CommunityID,
          claim.Creator, TimeString(claim.CreatedTime),
          ToString(Cardinality(participantsTarget) - Cardinality(participantsPreviousDay))>>

UserBaseHeader ==
    <<"address", "username", "email", "creation_date", "updated_date", "last_login",
      "user_group">>

DbUser(address, username, createdAt, lastAuthenticatedAt) ==
    [Address |-> address, Username |-> username, Email |-> username, CreatedAt |-> createdAt,
     UpdatedAt |-> createdAt, LastAuthenticatedAt |-> lastAuthenticatedAt, UserGroup |-> "user"]

\* What db.Client.FindAll(&users) may fill in.
DbUserLists ==
    { <<DbUser("a1", "alice", 1, 0)>>,
      <<DbUser("", "ghost", 1, 0), DbUser("a1", "alice", 1, 1), DbUser("a2", "bob", 2, 0)>> }

UserBaseRow(user) ==
    <<user.Address, user.Username, user.Email, TimeString(user.CreatedAt),
      TimeString(user.UpdatedAt),
      IF user.LastAuthenticatedAt # 0 THEN TimeString(user.LastAuthenticatedAt) ELSE "",
      user.UserGroup>>

MetricsSecrets == {"", "s3cret"}
MetricsSecretHeaders == {"", "s3cret", "wrong"}

(***************************************************************************)
(* The four report handlers as a state machine (one request).              *)
(***************************************************************************)
\* ParseForm, the date parameter, time.Parse and the claims query: each
\* failure renders an error and returns.
DateOutcomes == {"ok", "form", "nodate", "baddate", "query"}

\* The outcomes of DateOutcomes that are errors of a query, as opposed to
\* a malformed request.
StartFailed(e) == IF e \in {"query", "views", "replies"} THEN {e} ELSE {}

StartError(out, e) ==
    IF e = "nodate" THEN RenderError(out, "provide a valid date", 400)
    ELSE RenderError(out, e, 500)

Flush(out, buf) == out \o buf

\* The requests explored: many claims, many stakes or many transactions.
ReportBudgets ==
    { [claims |-> MaxClaims, stakes |-> 1, txs |-> 1],
      [claims |-> 1, stakes |-> MaxStakes, txs |-> 0],
      [claims |-> 1, stakes |-> 1, txs |-> MaxTxs] }

\* The arguments and stakes that the resolvers return for a claim; they
\* are not called for a claim that the loop skips.
ArgumentsResultsOf(claim, date) ==
    IF claim.CreatedTime < date THEN ClaimArgumentsResults
    ELSE {[err |-> FALSE, arguments |-> <<>>]}

StakesOf(claim, date, inputs, n) ==
    IF claim.CreatedTime < date THEN SeqsUpTo(inputs, n) ELSE {<<>>}

\* What CommentsByClaimID returns for a claim: the comments, or an error
\* and no comments.
CommentsByClaimIDOf(claim, date) ==
    IF claim.CreatedTime < date
       THEN { [err |-> FALSE, comments |-> c] : c \in SeqsUpTo(CommentInputs, 1) }
            \cup { [err |-> TRUE, comments |-> <<>>] }
       ELSE { [err |-> FALSE, comments |-> <<>>] }

InitReportVars ==
    /\ rpHandler = ""
    /\ rpPc = "idle"
    /\ rpDate = 0
    /\ rpOut = <<>>
    /\ rpBuf = <<>>
    /\ rpCount = 0
    /\ chainMetrics = EmptyMap
    /\ rpUsers = <<>>
    /\ rpFound = <<>>
    /\ rpCommunities = <<>>
    /\ rpBudget = [claims |-> 0, stakes |-> 0, txs |-> 0]
    /\ rpFailed = {}
    /\ rpSecret = ""
    /\ rpHeader = ""

\* HandleClaimMetrics up to the loop over the claims.
CMStart ==
    /\ rpPc = "idle"
    /\ rpHandler' = "claims"
    /\ \E e \in DateOutcomes \cup {"views", "replies"} :
         IF e # "ok"
            THEN /\ rpOut' = StartError(rpOut, e)
                 /\ rpPc' = "done"
                 /\ rpFailed' = StartFailed(e)
                 /\ UNCHANGED <<rpDate, rpBuf, rpBudget>>
            ELSE /\ rpDate' \in CutoffDates
                 /\ rpBudget' \in {[b EXCEPT !.txs = 0] : b \in ReportBudgets}
                 /\ rpBuf' = CsvWrite(rpBuf, "header", ClaimMetricsHeader)
                 /\ \/ /\ rpOut' = RenderError(rpOut, "flagged", 500)
                       /\ rpFailed' = {"flagged"}
                    \/ UNCHANGED <<rpOut, rpFailed>>
                 /\ rpPc' = "claims"
    /\ UNCHANGED <<rpCount, chainMetrics, rpUsers, rpFound, rpCommunities>>
    /\ UNCHANGED <<rpSecret, rpHeader>>
    /\ UNCHANGED otherThanReports

\* One iteration of the loop over the claims of HandleClaimMetrics.
CMClaim ==
    /\ rpHandler = "claims"
    /\ rpPc = "claims"
    /\ rpBudget.claims > 0
    /\ rpCount' = rpCount + 1
    /\ \E claim \in ClaimInputs(rpCount + 1) :
       \E res \in ArgumentsResultsOf(claim, rpDate),
          stakes \in StakesOf(claim, rpDate, ClaimStakeInputs, rpBudget.stakes) :
         /\ rpBudget' = [rpBudget EXCEPT !.claims = @ - 1, !.stakes = @ - Len(stakes)]
         /\ rpFailed' = IF res.err THEN rpFailed \cup {"arguments"} ELSE rpFailed
         /\ IF ~(claim.CreatedTime < rpDate)
            THEN UNCHANGED <<rpPc, rpOut, rpBuf>>
            ELSE
              LET errs == IF res.err THEN RenderError(<<>>, "arguments", 500) ELSE <<>>
                  t == ClaimStakesPass([ZeroClaimTotals EXCEPT !.errs = errs],
                                       res.arguments, stakes, rpDate)
                  row == ClaimMetricsRow(claim, res.arguments, t, rpDate)
              IN  IF t.panic
                    THEN /\ rpOut' = rpOut \o t.errs
                         /\ rpPc' = "panic"
                         /\ UNCHANGED rpBuf
                  ELSE IF Len(ClaimMetricsHeader) # Len(row)
                    THEN /\ rpOut' = RenderError(rpOut \o t.errs,
                                                 "header and row content mismatch", 500)
                         /\ rpPc' = "done"
                         /\ UNCHANGED rpBuf
                  ELSE /\ rpOut' = Flush(rpOut \o t.errs, CsvWrite(rpBuf, "row", row))
                       /\ rpBuf' = <<>>
                       /\ UNCHANGED rpPc
    /\ UNCHANGED <<rpHandler, rpDate, chainMetrics, rpUsers, rpFound, rpCommunities>>
    /\ UNCHANGED <<rpSecret, rpHeader>>
    /\ UNCHANGED otherThanReports

\* HandleUserClaims up to the loop over the claims: the header is written
\* before the request is looked at.
UCStart ==
    /\ rpPc = "idle"
    /\ rpHandler' = "userclaims"
    /\ rpBuf' = CsvWrite(rpBuf, "header", UserClaimsHeader)
    /\ \E e \in DateOutcomes :
         IF e # "ok"
            THEN /\ rpOut' = StartError(rpOut, e)
                 /\ rpPc' = "done"
                 /\ rpFailed' = StartFailed(e)
                 /\ UNCHANGED <<rpDate, rpBudget>>
            ELSE /\ rpDate' \in CutoffDates
                 /\ rpBudget' \in {[b EXCEPT !.txs = 0] : b \in ReportBudgets}
                 /\ rpPc' = "claims"
                 /\ UNCHANGED <<rpOut, rpFailed>>
    /\ UNCHANGED <<rpCount, chainMetrics, rpUsers, rpFound, rpCommunities>>
    /\ UNCHANGED <<rpSecret, rpHeader>>
    /\ UNCHANGED otherThanReports

\* One iteration of the loop over the claims of HandleUserClaims.
UCClaim ==
    /\ rpHandler = "userclaims"
    /\ rpPc = "claims"
    /\ rpBudget.claims > 0
    /\ rpCount' = rpCount + 1
    /\ \E claim \in ClaimInputs(rpCount + 1) :
       \E stakes \in StakesOf(claim, rpDate, UserClaimsStakeInputs, rpBudget.stakes),
          res \in CommentsByClaimIDOf(claim, rpDate) :
         /\ rpBudget' = [rpBudget EXCEPT !.claims = @ - 1, !.stakes = @ - Len(stakes)]
         /\ rpFailed' = IF res.err THEN rpFailed \cup {"comments"} ELSE rpFailed
         /\ IF ~(claim.CreatedTime < rpDate)
            THEN UNCHANGED <<rpOut, rpBuf>>
            ELSE /\ rpOut' = Flush(rpOut, CsvWrite(rpBuf, "row",
                                       UserClaimsRow(claim, stakes, res.comments, rpDate)))
                 /\ rpBuf' = <<>>
    /\ UNCHANGED <<rpHandler, rpPc, rpDate, chainMetrics, rpUsers, rpFound, rpCommunities>>
    /\ UNCHANGED <<rpSecret, rpHeader>>
    /\ UNCHANGED otherThanReports

\* The token check of HandleUserBase with the test for an empty configured
\* secret left out.
InvalidTokenMismatchOnly(token, header) == token # header

\* The token check of HandleUserBase: the request is refused when no secret
\* is configured or the header differs from the configured secret.
InvalidToken(token, header) == token = "" \/ token # header

\* HandleUserBase up to the loop over the users.
UBStart ==
    /\ rpPc = "idle"
    /\ rpHandler' = "userbase"
    /\ \E token \in MetricsSecrets, header \in MetricsSecretHeaders :
         /\ rpSecret' = token
         /\ rpHeader' = header
         /\ IF InvalidToken(token, header)
            THEN /\ rpOut' = RenderError(rpOut, "Invalid token", 401)
                 /\ rpPc' = "done"
                 /\ UNCHANGED <<rpBuf, rpUsers, rpFound, rpFailed>>
            ELSE /\ rpBuf' = CsvWrite(rpBuf, "header", UserBaseHeader)
                 /\ \/ /\ rpOut' = RenderError(rpOut, "findall", 500)
                       /\ rpFailed' = {"findall"}
                       /\ rpPc' = "done"
                       /\ UNCHANGED <<rpUsers, rpFound>>
                    \/ /\ rpUsers' \in DbUserLists
                       /\ rpFound' = rpUsers'
                       /\ rpPc' = "users"
                       /\ UNCHANGED <<rpOut, rpFailed>>
    /\ UNCHANGED <<rpDate, rpCount, chainMetrics, rpCommunities, rpBudget>>
    /\ UNCHANGED otherThanReports

\* One iteration of the loop over the users of HandleUserBase.
UBUser ==
    /\ rpHandler = "userbase"
    /\ rpPc = "users"
    /\ rpUsers # <<>>
    /\ rpUsers' = Tail(rpUsers)
    /\ UNCHANGED rpFound
    /\ LET user == Head(rpUsers) IN
         IF user.Address = ""
            THEN UNCHANGED <<rpOut, rpBuf>>
            ELSE /\ rpOut' = Flush(rpOut, CsvWrite(rpBuf, "row", UserBaseRow(user)))
                 /\ rpBuf' = <<>>
    /\ UNCHANGED <<rpHandler, rpPc, rpDate, rpCount, chainMetrics, rpCommunities, rpBudget,
                   rpFailed>>
    /\ UNCHANGED <<rpSecret, rpHeader>>
    /\ UNCHANGED otherThanReports

\* HandleUsersMetrics up to the loop over the claims; the error of FindAll
\* is rendered twice and the handler goes on without users.
UMStart ==
    /\ rpPc = "idle"
    /\ rpHandler' = "users"
    /\ \E e \in DateOutcomes :
         IF e # "ok"
            THEN /\ rpOut' = StartError(rpOut, e)
                 /\ rpPc' = "done"
                 /\ rpFailed' = StartFailed(e)
                 /\ UNCHANGED <<rpDate, rpUsers, rpFound, rpBudget>>
            ELSE /\ rpDate' \in CutoffDates
                 /\ rpPc' = "claims"
                 /\ rpBudget' \in ReportBudgets
                 /\ \/ /\ rpOut' = RenderError(RenderError(rpOut, "findall", 500), "findall", 500)
                       /\ rpFailed' = {"findall"}
                       /\ rpUsers' = <<>>
                       /\ rpFound' = rpUsers'
                    \/ /\ rpUsers' \in DbUserLists
                       /\ rpFound' = rpUsers'
                       /\ UNCHANGED <<rpOut, rpFailed>>
    /\ UNCHANGED <<rpBuf, rpCount, chainMetrics, rpCommunities>>
    /\ UNCHANGED <<rpSecret, rpHeader>>
    /\ UNCHANGED otherThanReports

\* One iteration of the loop over the claims of HandleUsersMetrics.
UMClaim ==
    /\ rpHandler = "users"
    /\ rpPc = "claims"
    /\ rpBudget.claims > 0
    /\ rpCount' = rpCount + 1
    /\ \E claim \in ClaimInputs(rpCount + 1) :
       \E res \in ArgumentsResultsOf(claim, rpDate),
          stakes \in StakesOf(claim, rpDate, UsersMetricsStakeInputs, rpBudget.stakes) :
         /\ rpBudget' = [rpBudget EXCEPT !.claims = @ - 1, !.stakes = @ - Len(stakes)]
         /\ chainMetrics' = UsersClaimIter(chainMetrics, claim, res.arguments, stakes, rpDate)
         /\ IF claim.CreatedTime < rpDate /\ res.err
               THEN /\ rpOut' = RenderError(rpOut, "arguments", 500)
                    /\ rpFailed' = rpFailed \cup {"arguments"}
               ELSE UNCHANGED <<rpOut, rpFailed>>
    /\ UNCHANGED <<rpHandler, rpPc, rpDate, rpBuf, rpUsers, rpFound, rpCommunities>>
    /\ UNCHANGED <<rpSecret, rpHeader>>
    /\ UNCHANGED otherThanReports

OpenedSummaryRows == { <<>>, <<[Address |-> "a1", CommunityID |-> "c1", Total |-> 2, Unique |-> 1]>> }

ApplyOpened(m, rows, total, unique) ==
    IF rows = <<>> THEN m
    ELSE UcmSet(UcmSet(m, rows[1].Address, rows[1].CommunityID, total, rows[1].Total),
                rows[1].Address, rows[1].CommunityID, unique, rows[1].Unique)

ApplyReplies(m, rows) ==
    IF rows = <<>> THEN m
    ELSE UcmSet(m, rows[1].Address, rows[1].CommunityID, "Replies", rows[1].Total)

\* After the claims: the communities query, the header, and the three
\* summaries of the database.
UMSummaries ==
    /\ rpHandler = "users"
    /\ rpPc = "claims"
    /\ \/ \E first \in BOOLEAN :
            \* no community: with or without the errors of the query
            /\ rpOut' = RenderError(
                           IF first THEN RenderError(RenderError(rpOut, "communities", 500),
                                                     "communities", 500)
                                    ELSE rpOut,
                           "no communities found", 500)
            /\ rpFailed' = IF first THEN rpFailed \cup {"communities"} ELSE rpFailed
            /\ rpPc' = "done"
            /\ UNCHANGED <<rpBuf, chainMetrics, rpCommunities>>
       \/ \E claimsErr \in BOOLEAN, last \in {"ok", "arguments", "replies"},
             rows \in OpenedSummaryRows :
            LET communities == Communities
                oc == rows
                oa == rows
                rp == rows
                m1 == IF claimsErr THEN chainMetrics
                      ELSE ApplyOpened(chainMetrics, oc, "ClaimsOpened", "UniqueClaimsOpened")
                out1 == IF claimsErr THEN RenderError(rpOut, "openedclaims", 500) ELSE rpOut
            IN  /\ rpBuf' = CsvWrite(rpBuf, "header", UsersMetricsHeader)
                /\ rpCommunities' = communities
                /\ rpFailed' = rpFailed
                                \cup (IF claimsErr THEN {"openedclaims"} ELSE {})
                                \cup (IF last = "ok" THEN {}
                                      ELSE IF last = "arguments" THEN {"openedarguments"}
                                      ELSE {"replies"})
                /\ IF last = "arguments"
                     THEN /\ rpOut' = RenderError(out1, "openedarguments", 500)
                          /\ chainMetrics' = m1
                          /\ rpPc' = "done"
                   ELSE IF last = "replies"
                     THEN /\ rpOut' = RenderError(out1, "replies", 500)
                          /\ chainMetrics' =
                                ApplyOpened(m1, oa, "ArgumentsOpened", "UniqueArgumentsOpened")
                          /\ rpPc' = "done"
                   ELSE /\ rpOut' = out1
                        /\ chainMetrics' =
                              ApplyReplies(ApplyOpened(m1, oa, "ArgumentsOpened",
                                                       "UniqueArgumentsOpened"), rp)
                        /\ rpPc' = "users"
    /\ UNCHANGED <<rpHandler, rpDate, rpCount, rpUsers, rpFound, rpBudget>>
    /\ UNCHANGED <<rpSecret, rpHeader>>
    /\ UNCHANGED otherThanReports

\* The users that the loop of HandleUsersMetrics passes over.
UserSkippedAddressOnly(user, date) == user.Address = ""

UserSkipped(user, date) == user.Address = "" \/ ~(user.CreatedAt < date)

\* One iteration of the loop over the users of HandleUsersMetrics.
UMUser ==
    /\ rpHandler = "users"
    /\ rpPc = "users"
    /\ rpUsers # <<>>
    /\ rpUsers' = Tail(rpUsers)
    /\ UNCHANGED rpFound
    /\ LET user == Head(rpUsers) IN
         IF UserSkipped(user, rpDate)
            THEN UNCHANGED <<rpPc, rpOut, rpBuf, chainMetrics, rpBudget>>
            ELSE
              \E transactions \in SeqsUpTo(UsersTxInputs, rpBudget.txs) :
                LET t == UsersTxsPass([m |-> chainMetrics, balance |-> 0, err |-> FALSE],
                                      user.Address, transactions, rpDate)
                    rowStart == <<JobTime, TimeString(rpDate), user.Address, user.Username,
                                  ToString(t.balance)>>
                    c == UsersCommunitiesPass([m |-> t.m, buf |-> rpBuf], rowStart,
                                              user.Address, rpCommunities)
                IN  /\ rpBudget' = [rpBudget EXCEPT !.txs = @ - Len(transactions)]
                    /\ IF t.err
                         THEN /\ rpOut' = RenderError(rpOut, "must contain community id", 500)
                              /\ chainMetrics' = t.m
                              /\ rpPc' = "done"
                              /\ UNCHANGED rpBuf
                         ELSE /\ rpOut' = Flush(rpOut, c.buf)
                              /\ rpBuf' = <<>>
                              /\ chainMetrics' = c.m
                              /\ UNCHANGED rpPc
    /\ UNCHANGED <<rpHandler, rpDate, rpCount, rpCommunities, rpFailed>>
    /\ UNCHANGED <<rpSecret, rpHeader>>
    /\ UNCHANGED otherThanReports

\* The end of the slice a handler ranges over: the handler returns, and
\* what is still in the buffer of the csv writer is never flushed.
ReportReturn ==
    /\ \/ rpPc = "claims" /\ rpHandler \in {"claims", "userclaims"}
       \/ rpPc = "users" /\ rpUsers = <<>>
    /\ rpPc' = "done"
    /\ UNCHANGED <<rpHandler, rpDate, rpOut, rpBuf, rpCount, chainMetrics, rpUsers, rpFound,
                   rpCommunities, rpBudget, rpFailed>>
    /\ UNCHANGED <<rpSecret, rpHeader>>
    /\ UNCHANGED otherThanReports

NextReports ==
    \/ CMStart
    \/ CMClaim
    \/ UCStart
    \/ UCClaim
    \/ UBStart
    \/ UBUser
    \/ UMStart
    \/ UMClaim
    \/ UMSummaries
    \/ UMUser
    \/ ReportReturn

(***************************************************************************)
(* The mention translator (db/mention.go).  A body is a sequence of        *)
(* characters; the fixed parts of a profile link are single elements.      *)
(***************************************************************************)
Alphabet == {"@", "a", "b", " "}

Bodies == SeqsUpTo(Alphabet, MaxBody)

\* The rows of the twitter_profiles table.
TwitterProfiles ==
    { [Username |-> <<"a">>, Address |-> <<"b", "b">>],
      [Username |-> <<"a", "b">>, Address |-> <<"b">>] }

NilProfile == [Username |-> <<>>, Address |-> <<>>]

TwitterProfileByUsername(username) ==
    IF \E tp \in TwitterProfiles : tp.Username = username
       THEN CHOOSE tp \in TwitterProfiles : tp.Username = username
       ELSE NilProfile

TwitterProfileByAddress(address) ==
    IF \E tp \in TwitterProfiles : tp.Address = address
       THEN CHOOSE tp \in TwitterProfiles : tp.Address = address
       ELSE NilProfile

\* strings.ReplaceAll for a non-empty old: left to right, no overlap.
RECURSIVE ReplaceAll(_, _, _)
ReplaceAll(str, old, new) ==
    IF Len(str) < Len(old) THEN str
    ELSE IF SubSeq(str, 1, Len(old)) = old
         THEN new \o ReplaceAll(SubSeq(str, Len(old) + 1, Len(str)), old, new)
         ELSE <<Head(str)>> \o ReplaceAll(Tail(str), old, new)

\* The pieces of a body between the terminators.
RECURSIVE SplitWords(_)
SplitWords(str) ==
    IF ~Contains(str, " ") THEN <<str>>
    ELSE <<SubSeq(str, 1, IndexOf(str, " ") - 1)>>
         \o SplitWords(SubSeq(str, IndexOf(str, " ") + 1, Len(str)))

RECURSIVE JoinWords(_)
JoinWords(words) ==
    IF Len(words) = 1 THEN words[1]
    ELSE words[1] \o <<" ">> \o JoinWords(Tail(words))

\* strings.TrimLeft(str, "@")
RECURSIVE TrimLeft(_)
TrimLeft(str) == IF str # <<>> /\ Head(str) = "@" THEN TrimLeft(Tail(str)) ELSE str

\* mention.GetTagsAsUniqueStrings('@', body, ' ', ...): the text after an @
\* that opens the body or follows a terminator, up to the next terminator.
parseMentions(body) ==
    { TrimLeft(Tail(w)) : w \in { x \in {SplitWords(body)[i] : i \in 1..Len(SplitWords(body))} :
                                    x # <<>> /\ Head(x) = "@" /\ TrimLeft(Tail(x)) # <<>> } }

\* The orders in which a Go map over the keys S may be ranged over.
Orders(S) ==
    { o \in [1..Cardinality(S) -> S] : \A x \in S : \E i \in 1..Cardinality(S) : o[i] = x }

addressByUsername(username) ==
    IF TwitterProfileByUsername(username) = NilProfile THEN username
    ELSE TwitterProfileByUsername(username).Address

RECURSIVE replaceUsernamesWithAddress(_, _)
replaceUsernamesWithAddress(body, order) ==
    IF order = <<>> THEN body
    ELSE replaceUsernamesWithAddress(
             ReplaceAll(body, Head(order), addressByUsername(Head(order))), Tail(order))

HttpPrefix(https) == IF https THEN "https://" ELSE "http://"

profileURLByAddress(address, https) ==
    IF TwitterProfileByAddress(address) = NilProfile THEN address
    ELSE <<"[", "@">> \o TwitterProfileByAddress(address).Username
         \o <<"]", "(", HttpPrefix(https), "host/profile/">>
         \o TwitterProfileByAddress(address).Address \o <<")">>

RECURSIVE replaceAddressesWithProfileURLs(_, _, _)
replaceAddressesWithProfileURLs(body, order, https) ==
    IF order = <<>> THEN body
    ELSE replaceAddressesWithProfileURLs(
             ReplaceAll(body, <<"@">> \o Head(order), profileURLByAddress(Head(order), https)),
             Tail(order), https)

InitMentionVars ==
    /\ mnOp = ""
    /\ mnBody = <<>>
    /\ mnOut = <<>>
    /\ mnErr = FALSE
    /\ mnHTTPS = FALSE

\* One call of TranslateToCosmosMentions: a lookup may fail, and then the
\* body comes back as it was, with the error.
TranslateToCosmosMentions ==
    /\ mnOp = ""
    /\ mnOp' = "cosmos"
    /\ UNCHANGED mnHTTPS
    /\ \E body \in Bodies, lookupFails \in BOOLEAN :
         /\ mnBody' = body
         /\ IF lookupFails
              THEN /\ parseMentions(body) # {}
                   /\ mnOut' = body
                   /\ mnErr' = TRUE
              ELSE /\ \E order \in Orders(parseMentions(body)) :
                        mnOut' = replaceUsernamesWithAddress(body, order)
                   /\ mnErr' = FALSE
    /\ UNCHANGED otherThanMention

\* One call of TranslateToUsersMentions: after a failed lookup the empty
\* string is returned with the error.
TranslateToUsersMentions ==
    /\ mnOp = ""
    /\ mnOp' = "users"
    /\ mnHTTPS' \in BOOLEAN
    /\ \E body \in Bodies, lookupFails \in BOOLEAN :
         /\ mnBody' = body
         /\ IF lookupFails
              THEN /\ parseMentions(body) # {}
                   /\ mnOut' = <<>>
                   /\ mnErr' = TRUE
              ELSE /\ \E order \in Orders(parseMentions(body)) :
                        mnOut' = replaceAddressesWithProfileURLs(body, order, mnHTTPS')
                   /\ mnErr' = FALSE
    /\ UNCHANGED otherThanMention

NextMention ==
    \/ TranslateToCosmosMentions
    \/ TranslateToUsersMentions

(***************************************************************************)
(* ConsumeInvite and GrantInvites on one user.  Each call is a thread of   *)
(* its own; an UPDATE statement is one atomic step of the database.        *)
(***************************************************************************)
InviteCalls == 1..MaxCalls

GrantCounts == {1, 2}

RewardLedgerEntryDirectionCredit == "credit"
RewardLedgerEntryDirectionDebit == "debit"

\* A call that has not started.
NoCall == [fn |-> "", pc |-> "idle", count |-> 0, decremented |-> 0, ret |-> "", err |-> FALSE]

InitInvitesVars ==
    /\ invitesLeft = 0
    /\ rewardLedger = <<>>
    /\ invCalls = [c \in InviteCalls |-> NoCall]

\* GrantInvites: the UPDATE adding count to invites_left, or its error.
GrantInvitesUpdate(c) ==
    /\ invCalls[c].pc = "idle"
    /\ \E count \in GrantCounts, updateFails \in BOOLEAN :
         IF updateFails
            THEN /\ invCalls' = [invCalls EXCEPT ![c] =
                        [NoCall EXCEPT !.fn = "GrantInvites", !.pc = "done", !.count = count,
                                       !.err = TRUE]]
                 /\ UNCHANGED invitesLeft
            ELSE /\ invitesLeft' = invitesLeft + count
                 /\ invCalls' = [invCalls EXCEPT ![c] =
                        [NoCall EXCEPT !.fn = "GrantInvites", !.pc = "ledger", !.count = count]]
    /\ UNCHANGED rewardLedger
    /\ UNCHANGED otherThanInvites

\* ConsumeInvite: the UPDATE ... WHERE invites_left > 0, its error, or no
\* row affected.
ConsumeInviteUpdate(c) ==
    /\ invCalls[c].pc = "idle"
    /\ \E updateFails \in BOOLEAN :
         IF updateFails
            THEN /\ invCalls' = [invCalls EXCEPT ![c] =
                        [NoCall EXCEPT !.fn = "ConsumeInvite", !.pc = "done", !.ret = "false",
                                       !.err = TRUE]]
                 /\ UNCHANGED invitesLeft
         ELSE IF invitesLeft > 0
            THEN /\ invitesLeft' = invitesLeft - 1
                 /\ invCalls' = [invCalls EXCEPT ![c] =
                        [NoCall EXCEPT !.fn = "ConsumeInvite", !.pc = "ledger",
                                       !.decremented = 1]]
            ELSE /\ invCalls' = [invCalls EXCEPT ![c] =
                        [NoCall EXCEPT !.fn = "ConsumeInvite", !.pc = "done", !.ret = "false"]]
                 /\ UNCHANGED invitesLeft
    /\ UNCHANGED rewardLedger
    /\ UNCHANGED otherThanInvites

\* RecordRewardLedgerEntry of either function, and the return.
RecordRewardLedgerEntry(c) ==
    /\ invCalls[c].pc = "ledger"
    /\ \E ledgerFails \in BOOLEAN :
         IF ledgerFails
            THEN /\ invCalls' = [invCalls EXCEPT ![c].pc = "done", ![c].err = TRUE,
                                    ![c].ret = IF invCalls[c].fn = "ConsumeInvite"
                                                  THEN "false" ELSE ""]
                 /\ UNCHANGED rewardLedger
            ELSE /\ invCalls' = [invCalls EXCEPT ![c].pc = "done",
                                    ![c].ret = IF invCalls[c].fn = "ConsumeInvite"
                                                  THEN "true" ELSE ""]
                 /\ rewardLedger' = Append(rewardLedger,
                        IF invCalls[c].fn = "ConsumeInvite"
                           THEN [direction |-> RewardLedgerEntryDirectionDebit, amount |-> 1]
                           ELSE [direction |-> RewardLedgerEntryDirectionCredit,
                                 amount |-> invCalls[c].count])
    /\ UNCHANGED invitesLeft
    /\ UNCHANGED otherThanInvites

NextInvites ==
    \E c \in InviteCalls :
        \/ GrantInvitesUpdate(c)
        \/ ConsumeInviteUpdate(c)
        \/ RecordRewardLedgerEntry(c)

(***************************************************************************)
(* BasicAuth (truapi.go).  User names and passwords are sequences of       *)
(* characters.                                                             *)
(***************************************************************************)
Credentials == SeqsUpTo({"a", "b"}, MaxCred)

\* The Authorization header of a request: absent, not a well-formed Basic
\* header, or Basic with a user name and a password.
AuthRequests ==
    { [auth |-> "none", user |-> <<>>, pass |-> <<>>],
      [auth |-> "malformed", user |-> <<>>, pass |-> <<>>] }
    \cup { [auth |-> "basic", user |-> u, pass |-> p] : u \in Credentials, p \in Credentials }

AdminConfigs ==
    { [Username |-> u, Password |-> p] :
        u \in {<<>>, <<"a">>, <<"a", "b">>}, p \in {<<>>, <<"b">>, <<"b", "a">>} }

\* http.Request.BasicAuth
RequestBasicAuth(r) ==
    IF r.auth = "basic" THEN [user |-> r.user, pass |-> r.pass, ok |-> TRUE]
    ELSE [user |-> <<>>, pass |-> <<>>, ok |-> FALSE]

\* subtle.ConstantTimeCompare: 1 when the slices are equal, 0 otherwise,
\* and 0 at once when the lengths differ.
ConstantTimeCompareLengthOnly(x, y) == IF Len(x) # Len(y) THEN 0 ELSE 1

ConstantTimeCompare(x, y) ==
    IF Len(x) # Len(y) THEN 0
    ELSE IF \A i \in 1..Len(x) : x[i] = y[i] THEN 1 ELSE 0

NoResponse == [status |-> 0, wwwAuthenticate |-> "", body |-> ""]

InitBasicAuthVars ==
    /\ baPc = "new"
    /\ baAdmin = [Username |-> <<>>, Password |-> <<>>]
    /\ baRequest = [auth |-> "none", user |-> <<>>, pass |-> <<>>]
    /\ baResponse = NoResponse
    /\ baInvoked = 0

\* BasicAuth(apiCtx, handler): the wrapper captures the configuration.
BasicAuth ==
    /\ baPc = "new"
    /\ baPc' = "ready"
    /\ baAdmin' \in AdminConfigs
    /\ UNCHANGED <<baRequest, baResponse, baInvoked>>
    /\ UNCHANGED otherThanBasicAuth

\* The wrapper serving one request.
BasicAuthServe ==
    /\ baPc = "ready"
    /\ baPc' = "served"
    /\ \E r \in AuthRequests :
         /\ baRequest' = r
         /\ IF \/ ~RequestBasicAuth(r).ok
               \/ ConstantTimeCompare(RequestBasicAuth(r).user, baAdmin.Username) # 1
               \/ ConstantTimeCompare(RequestBasicAuth(r).pass, baAdmin.Password) # 1
              THEN /\ baResponse' = [status |-> 401,
                                     wwwAuthenticate |-> "Basic realm=please authenticate",
                                     body |-> "Unauthorised.\n"]
                   /\ UNCHANGED baInvoked
              ELSE /\ baInvoked' = baInvoked + 1
                   /\ baResponse' = [status |-> 200, wwwAuthenticate |-> "", body |-> "handler"]
    /\ UNCHANGED baAdmin
    /\ UNCHANGED otherThanBasicAuth

NextBasicAuth ==
    \/ BasicAuth
    \/ BasicAuthServe

(***************************************************************************)
(* The flags of a user: blacklisting, approval, rejection, verification.   *)
(* A timestamp is a positive integer; 0 stands for NULL and for the zero   *)
(* time.Time that NULL is scanned into.                                    *)
(***************************************************************************)
RowIDs == {1}
CallIDs == {1, 2}
Identifiers == {"alice", "alice@example.com", "bob", "!"}
Passwords == {"pw", "other"}
VerifyTokens == {"tok", "wrong"}

\* bcrypt.GenerateFromPassword and bcrypt.CompareHashAndPassword.
GenerateFromPassword(password) == <<"bcrypt", password>>
CompareHashAndPassword(hash, password) == hash = GenerateFromPassword(password)

\* time.Time.IsZero
IsZeroAlways(t) == TRUE

IsZero(t) == t = 0

\* The row RegisterUser inserts: approved on creation, nothing else set.
RegisteredRow ==
    [ID |-> 1, Username |-> "alice", Email |-> "alice@example.com",
     Password |-> GenerateFromPassword("pw"), Token |-> "tok",
     ApprovedAt |-> 1, RejectedAt |-> 0, VerifiedAt |-> 0, BlacklistedAt |-> 0]

IsValidEmail(identifier) == identifier \in {"alice@example.com"}
IsValidUsername(identifier) == identifier \in {"alice", "bob"}

\* UserByEmailOrUsername: the ids of the rows found, or an error for an
\* identifier that is neither an email nor a username.
UserByEmailOrUsername(rows, identifier) ==
    IF IsValidEmail(identifier)
       THEN [err |-> FALSE, ids |-> {i \in DOMAIN rows : rows[i].Email = identifier}]
    ELSE IF IsValidUsername(identifier)
       THEN [err |-> FALSE, ids |-> {i \in DOMAIN rows : rows[i].Username = identifier}]
    ELSE [err |-> TRUE, ids |-> {}]

\* GetAuthenticatedUser: the id of the user returned, or 0 with an error.
GetAuthenticatedUser(rows, identifier, password) ==
    LET found == UserByEmailOrUsername(rows, identifier)
    IN  IF found.err THEN [id |-> 0, err |-> "no such user"]
        ELSE IF found.ids = {} THEN [id |-> 0, err |-> "Invalid username, email or password"]
        ELSE LET user == rows[CHOOSE i \in found.ids : TRUE]
             IN  IF ~IsZero(user.BlacklistedAt)
                    THEN [id |-> 0, err |-> "User cannot be authenticated"]
                 ELSE IF ~CompareHashAndPassword(user.Password, password)
                    THEN [id |-> 0, err |-> "Oops! Invalid credentials provided"]
                 ELSE [id |-> user.ID, err |-> ""]

\* The SET clauses of the two approval updates.
RejectedKeepingApproval(row, now) == [row EXCEPT !.RejectedAt = now]

Rejected(row, now) == [row EXCEPT !.RejectedAt = now, !.ApprovedAt = 0]

Approved(row, now) == [row EXCEPT !.ApprovedAt = now, !.RejectedAt = 0]

NoAuth == [called |-> FALSE, identifier |-> "", password |-> "", whileBlacklisted |-> {},
           id |-> 0, err |-> ""]

InitUsersVars ==
    /\ userRows = [i \in RowIDs |-> RegisteredRow]
    /\ dbNow = 1
    /\ lastOp = [fn |-> "", id |-> 0, err |-> ""]
    /\ lastAuth = NoAuth
    /\ blacklistedIDs = {}

\* Every call below reads the clock once; the clock moves on afterwards.
Tick ==
    /\ dbNow < MaxNow
    /\ dbNow' = dbNow + 1

BlacklistUser(id) ==
    /\ Tick
    /\ IF id \in DOMAIN userRows
          THEN /\ userRows' = [userRows EXCEPT ![id].BlacklistedAt = dbNow']
               /\ blacklistedIDs' = blacklistedIDs \cup {id}
               /\ lastOp' = [fn |-> "BlacklistUser", id |-> id, err |-> ""]
          ELSE /\ lastOp' = [fn |-> "BlacklistUser", id |-> id, err |-> "invalid user"]
               /\ UNCHANGED <<userRows, blacklistedIDs>>
    /\ UNCHANGED lastAuth
    /\ UNCHANGED otherThanUsers

UnblacklistUser(id) ==
    /\ Tick
    /\ IF id \in DOMAIN userRows
          THEN /\ userRows' = [userRows EXCEPT ![id].BlacklistedAt = 0]
               /\ blacklistedIDs' = blacklistedIDs \ {id}
               /\ lastOp' = [fn |-> "UnblacklistUser", id |-> id, err |-> ""]
          ELSE /\ lastOp' = [fn |-> "UnblacklistUser", id |-> id, err |-> "invalid user"]
               /\ UNCHANGED <<userRows, blacklistedIDs>>
    /\ UNCHANGED lastAuth
    /\ UNCHANGED otherThanUsers

GetAuthenticatedUserCall ==
    /\ Tick
    /\ \E identifier \in Identifiers, password \in Passwords :
         LET res == GetAuthenticatedUser(userRows, identifier, password)
         IN  /\ lastAuth' = [called |-> TRUE, identifier |-> identifier,
                             password |-> password, whileBlacklisted |-> blacklistedIDs,
                             id |-> res.id, err |-> res.err]
             /\ lastOp' = [fn |-> "GetAuthenticatedUser", id |-> res.id, err |-> res.err]
    /\ UNCHANGED <<userRows, blacklistedIDs>>
    /\ UNCHANGED otherThanUsers

\* The UPDATE affects no row for an unknown id or a verified user, and
\* that is not an error.
ApproveUserByID(id) ==
    /\ Tick
    /\ userRows' = [i \in DOMAIN userRows |->
                       IF i = id /\ userRows[i].VerifiedAt = 0
                          THEN Approved(userRows[i], dbNow') ELSE userRows[i]]
    /\ lastOp' = [fn |-> "ApproveUserByID", id |-> id, err |-> ""]
    /\ UNCHANGED <<lastAuth, blacklistedIDs>>
    /\ UNCHANGED otherThanUsers

RejectUserByID(id) ==
    /\ Tick
    /\ userRows' = [i \in DOMAIN userRows |->
                       IF i = id /\ userRows[i].VerifiedAt = 0
                          THEN Rejected(userRows[i], dbNow') ELSE userRows[i]]
    /\ lastOp' = [fn |-> "RejectUserByID", id |-> id, err |-> ""]
    /\ UNCHANGED <<lastAuth, blacklistedIDs>>
    /\ UNCHANGED otherThanUsers

VerifyUser(id, token) ==
    /\ Tick
    /\ IF id \in DOMAIN userRows /\ userRows[id].Token = token /\ userRows[id].VerifiedAt = 0
          THEN /\ userRows' = [userRows EXCEPT ![id].VerifiedAt = dbNow']
               /\ lastOp' = [fn |-> "VerifyUser", id |-> id, err |-> ""]
          ELSE /\ lastOp' = [fn |-> "VerifyUser", id |-> id, err |-> "invalid token"]
               /\ UNCHANGED userRows
    /\ UNCHANGED <<lastAuth, blacklistedIDs>>
    /\ UNCHANGED otherThanUsers

NextUsers ==
    \/ \E id \in CallIDs : BlacklistUser(id)
    \/ \E id \in CallIDs : UnblacklistUser(id)
    \/ GetAuthenticatedUserCall
    \/ \E id \in CallIDs : ApproveUserByID(id)
    \/ \E id \in CallIDs : RejectUserByID(id)
    \/ \E id \in CallIDs, token \in VerifyTokens : VerifyUser(id, token)

(***************************************************************************)
(* getUniqueUsername.  A username is a sequence of characters.             *)
(***************************************************************************)
Digits == <<"0", "1", "2", "3", "4", "5", "6", "7", "8", "9">>

\* strconv.Itoa for a natural number.
RECURSIVE Itoa(_)
Itoa(n) == IF n < 10 THEN <<Digits[n + 1]>> ELSE Itoa(n \div 10) \o <<Digits[(n % 10) + 1]>>

\* strconv.Atoi for a string of digits; -1 stands for its error.
RECURSIVE Atoi(_)
Atoi(str) ==
    IF str = <<>> \/ ~Contains(Digits, str[Len(str)]) THEN -1
    ELSE IF Len(str) = 1 THEN IndexOf(Digits, str[1]) - 1
    ELSE IF Atoi(SubSeq(str, 1, Len(str) - 1)) = -1 THEN -1
    ELSE 10 * Atoi(SubSeq(str, 1, Len(str) - 1)) + IndexOf(Digits, str[Len(str)]) - 1

\* strings.ToLower and LOWER()
ToLower(str) == [i \in 1..Len(str) |-> IF str[i] = "A" THEN "a" ELSE str[i]]

\* UserByUsername: whether a user holds the username, whatever the case.
UserByUsername(taken, username) == \E t \in taken : ToLower(t) = ToLower(username)

\* The suffix of the recursive call.
NextSuffixSkipping(intSuffix) == Itoa(intSuffix + 2)

NextSuffix(intSuffix) == Itoa(intSuffix + 1)

\* The usernames the table may hold, and the usernames asked for.
UsernameUniverse == {<<"a">>, <<"A">>} \cup { <<"a">> \o Itoa(k) : k \in 1..MaxSuffix }
UsernameRequests == {<<"a">>, <<"A">>, <<"a", "1">>}

InitUsernameVars ==
    /\ unTaken = {}
    /\ unUsername = <<>>
    /\ unSuffix = <<>>
    /\ unPc = "idle"
    /\ unResult = <<>>

\* AddUserViaConnectedAccount calling getUniqueUsername(c, username, "").
AddUserViaConnectedAccount ==
    /\ unPc = "idle"
    /\ unTaken' \in SUBSET UsernameUniverse
    /\ unUsername' \in UsernameRequests
    /\ unSuffix' = <<>>
    /\ unPc' = "call"
    /\ UNCHANGED unResult
    /\ UNCHANGED otherThanUsername

\* One invocation of getUniqueUsername: the lookup, then the return or the
\* recursive call.
getUniqueUsername ==
    /\ unPc = "call"
    /\ \E lookupFails \in BOOLEAN :
         IF lookupFails
            THEN /\ unPc' = "error"
                 /\ UNCHANGED <<unSuffix, unResult>>
         ELSE IF UserByUsername(unTaken, unUsername \o unSuffix)
            THEN IF unSuffix # <<>> /\ Atoi(unSuffix) = -1
                    THEN /\ unPc' = "error"
                         /\ UNCHANGED <<unSuffix, unResult>>
                    ELSE /\ unSuffix' = NextSuffix(IF unSuffix = <<>> THEN 0 ELSE Atoi(unSuffix))
                         /\ UNCHANGED <<unPc, unResult>>
            ELSE /\ unResult' = unUsername \o unSuffix
                 /\ unPc' = "done"
                 /\ UNCHANGED unSuffix
    /\ UNCHANGED <<unTaken, unUsername>>
    /\ UNCHANGED otherThanUsername

NextUsername ==
    \/ AddUserViaConnectedAccount
    \/ getUniqueUsername

(***************************************************************************)
(* notExpiredAt on its own, over every triple of days.                     *)
(***************************************************************************)
Days == 0..MaxDay

InitExpiryVars ==
    /\ nePc = "idle"
    /\ neArgs = [date |-> 0, created |-> 0, end |-> 0]
    /\ neResult = FALSE

NotExpiredAtCall ==
    /\ nePc = "idle"
    /\ nePc' = "done"
    /\ \E date \in Days, created \in Days, end \in Days :
         /\ neArgs' = [date |-> date, created |-> created, end |-> end]
         /\ neResult' = notExpiredAt(date, created, end)
    /\ UNCHANGED otherThanExpiry

NextExpiry == NotExpiredAtCall

Init == InitNotifyVars /\ InitMetricsVars /\ InitReportVars /\ InitMentionVars /\ InitInvitesVars /\ InitBasicAuthVars /\ InitUsersVars /\ InitUsernameVars /\ InitExpiryVars

SpecNotify == Init /\ [][NextNotify]_vars

SpecMetrics == Init /\ [][NextMetrics]_vars

SpecReports == Init /\ [][NextReports]_vars

SpecMention == Init /\ [][NextMention]_vars

SpecInvites == Init /\ [][NextInvites]_vars

SpecBasicAuth == Init /\ [][NextBasicAuth]_vars

SpecUsers == Init /\ [][NextUsers]_vars

\* The call runs on its own goroutine to its return.
SpecUsername == Init /\ [][NextUsername]_vars /\ WF_vars(NextUsername)

SpecExpiry == Init /\ [][NextExpiry]_vars

(***************************************************************************)
(* Properties of HandleMetrics.                                            *)
(***************************************************************************)
MetricOf(ms, u, c, field) ==
    IF u \in DOMAIN ms /\ c \in DOMAIN ms[u].CategoryMetrics
        THEN ms[u].CategoryMetrics[c].Metrics[field]
        ELSE 0

StakeEarnedNonNegative ==
    \A u \in Addrs, c \in Categories : MetricOf(metricsSummary, u, c, "StakeEarned") >= 0

\* C2 as stated: StakeEarned is never negative, and a reward smaller than
\* or equal to the amount the user staked on the story adds nothing.
RewardNotAboveStakeAddsNothing ==
    /\ StakeEarnedNonNegative
    /\ \A c \in Categories :
          (\A r \in lastResults.results :
              r.cat = c =>
                 \/ r.reward = NilCoin
                 \/ r.staked # NilCoin /\ r.reward <= r.staked)
          => (lastResults.user \in Addrs =>
                 MetricOf(metricsSummary, lastResults.user, c, "StakeEarned") = 0)

\* C2 amended: StakeEarned is never negative, and for a story without a
\* stake-returned transaction a reward smaller than or equal to the amount
\* recorded for the user's stake on the story adds nothing.
NetRewardClamped ==
    /\ StakeEarnedNonNegative
    /\ \A c \in Categories :
          (\A r \in lastResults.results :
              r.cat = c =>
                 \/ r.reward = NilCoin
                 \/ r.returned = NilCoin /\ r.staked # NilCoin /\ r.reward <= r.staked)
          => (lastResults.user \in Addrs =>
                 MetricOf(metricsSummary, lastResults.user, c, "StakeEarned") = 0)

NetRewardClampedWitness ==
    \E r \in lastResults.results :
        /\ r.reward # NilCoin
        /\ r.returned = NilCoin
        /\ r.staked # NilCoin
        /\ r.reward < r.staked
        /\ MetricOf(metricsSummary, lastResults.user, r.cat, "StakeEarned") = 0

\* C3: for every user and category, TotalAmountStaked is the sum of the
\* amounts of the user's backings and challenges in that category that
\* were created before the cutoff date.
TotalAmountStakedIsSum ==
    \A u \in Addrs, c \in Categories :
        MetricOf(metricsSummary, u, c, "TotalAmountStaked") = observedStaked[<<u, c>>]

TotalAmountStakedWitness ==
    /\ hmPc = "done"
    /\ Len(hmResponse) = 1
    /\ hmResponse[1].kind = "json"
    /\ \E u \in Addrs, c \in Categories :
          /\ observedStaked[<<u, c>>] = 3
          /\ MetricOf(metricsSummary, u, c, "TotalBackings") = 1
          /\ MetricOf(metricsSummary, u, c, "TotalChallenges") = 1

\* C6: nothing created at or after the cutoff date contributes to the
\* metrics: the summary is the one obtained from the items created before
\* the cutoff alone.
NoLateContribution == metricsSummary = refSummary

(***************************************************************************)
(* Properties of the CSV reports.                                          *)
(***************************************************************************)
Records == rpOut \o rpBuf

IsOrphanError(rec) == rec.kind = "error" /\ rec.fields = <<"unable to find argument">>

\* C4: in each of the four reports every data row handed to the csv writer
\* has as many fields as the header of that report.
RowLengthEqualsHeader ==
    \A i \in 1..Len(Records), j \in 1..Len(Records) :
        Records[i].kind = "header" /\ Records[j].kind = "row"
            => Len(Records[j].fields) = Len(Records[i].fields)

RowLengthWitness ==
    /\ rpHandler = "users"
    /\ rpPc = "done"
    /\ Len(rpOut) = 3
    /\ rpOut[1].kind = "header"
    /\ rpOut[2].kind = "row" /\ rpOut[2].fields[6] = "c1" /\ rpOut[2].fields[5] = "-2"
    /\ rpOut[3].kind = "row" /\ rpOut[3].fields[6] = "c2"

\* C5 as stated: in the claim metrics report a stake before the cutoff whose
\* argument id is unknown ends the request: after its error no row is
\* written and the handler does not go on.
OrphanStakeIsFatal ==
    rpHandler = "claims" =>
        \A i \in 1..Len(rpOut) :
            IsOrphanError(rpOut[i]) =>
                /\ rpPc \in {"done", "panic"}
                /\ \A j \in (i + 1)..Len(rpOut) : rpOut[j].kind # "row"

(***************************************************************************)
(* Properties of the notification workers.                                 *)
(***************************************************************************)
DeliveredIds(ch) == {delivered[ch][i].req.id : i \in 1..Len(delivered[ch])}

Occurrences(seq, x) == Cardinality({i \in 1..Len(seq) : seq[i] = x})

\* C1: every forwarded notification of an invite reward embeds the
\* username of the causer when a causer was resolved, and the word "you"
\* when the request names no causer.
InviteMessageEmbedsCauser ==
    \A i \in 1..Len(delivered["rewards"]) :
        LET d == delivered["rewards"][i] IN
        d.req.RewardType = RewardTypeInvite =>
            /\ d.causer # NilUser => Contains(d.Msg, d.causer.Username)
            /\ d.req.CauserID = 0 => Contains(d.Msg, "you")

InviteMessageWitness ==
    \E i, j \in 1..Len(delivered["rewards"]) :
        /\ delivered["rewards"][i].req.RewardType = RewardTypeInvite
        /\ delivered["rewards"][i].causer # NilUser
        /\ delivered["rewards"][j].req.RewardType = RewardTypeInvite
        /\ delivered["rewards"][j].req.CauserID = 0

\* C7: a reward request one of whose lookups returned an error is never
\* forwarded, is received only once and is not put back on the channel,
\* and its worker is back at the top of the loop waiting for the next one.
LookupFailureDropsRequest ==
    \A id \in failed :
        Contains(received["rewards"], id) =>
            /\ id \notin DeliveredIds("rewards")
            /\ Occurrences(received["rewards"], id) = 1
            /\ \A p \in Producers : pending[p].id # id
            /\ \A q \in 1..Len(chanBuf["rewards"]) : chanBuf["rewards"][q].id # id
            /\ \A w \in 1..Len(goroutines) :
                  goroutines[w].n.id = id =>
                      goroutines[w].pc = "recv" /\ goroutines[w].out = NoNotif

LookupFailureWitness ==
    \E i \in 1..Len(received["rewards"]) :
        /\ received["rewards"][i] \in failed
        /\ i < Len(received["rewards"])

\* C8: within one category the notifications are forwarded in the order
\* in which the worker received their requests.
DeliveryOrderPreserved ==
    \A ch \in Channels :
        \A i, j \in 1..Len(delivered[ch]) :
            i < j => \E a, b \in 1..Len(received[ch]) :
                        /\ a < b
                        /\ received[ch][a] = delivered[ch][i].req.id
                        /\ received[ch][b] = delivered[ch][j].req.id

DeliveryOrderWitness ==
    /\ Len(delivered["rewards"]) >= 2
    /\ delivered["rewards"][1].req.id < delivered["rewards"][2].req.id

UnbufferedOneAtATime ==
    /\ [](\A i \in 1..nextId :
            \/ \E p \in Producers : pending[p].id = i
            \/ \E ch \in Channels : Contains(received[ch], i))
    /\ [][ /\ \A p \in Producers :
                (pending[p] # NoReq /\ pending'[p] = NoReq) =>
                    \E w \in 1..Len(goroutines) :
                        /\ goroutines[w].pc = "recv"
                        /\ goroutines'[w].pc = "body"
                        /\ goroutines'[w].n = pending[p]
           /\ \A w \in 1..Len(goroutines) :
                goroutines'[w].n # goroutines[w].n =>
                    \/ goroutines[w].n = NoReq
                    \/ goroutines[w].n.id \in dropped \cup DeliveredIds(goroutines[w].ch)
         ]_vars

UnbufferedWitness ==
    \E p \in Producers, w \in 1..Len(goroutines) :
        /\ pending[p] # NoReq
        /\ goroutines[w].ch = pending[p].ch
        /\ goroutines[w].pc \in {"body", "send"}
        /\ Len(received[goroutines[w].ch]) > 0

(***************************************************************************)
(* Error handling of the report handlers.                                  *)
(***************************************************************************)
\* C11 as stated: once a data-access or chain-query call of a report handler
\* has returned an error, the response carries a plain-text error message
\* with status 400, 401 or 500; no such error is silently ignored.
DataAccessErrorsRendered ==
    rpFailed # {} =>
        \E i \in 1..Len(rpOut) :
            rpOut[i].kind = "error" /\ rpOut[i].code \in {400, 401, 500}

(***************************************************************************)
(* The rows of the user metrics report.                                    *)
(***************************************************************************)
\* The (address, community) pairs of the data rows written so far.
RowPairs(out) ==
    LET rows == SelectSeq(out, LAMBDA rec : rec.kind = "row")
    IN  [i \in 1..Len(rows) |-> <<rows[i].fields[3], rows[i].fields[6]>>]

\* The pairs the report is to hold: user by user, community by community.
RECURSIVE ExpectedPairs(_, _, _)
ExpectedPairs(users, date, communities) ==
    IF users = <<>> THEN <<>>
    ELSE (IF Head(users).Address # "" /\ Head(users).CreatedAt < date
             THEN [i \in 1..Len(communities) |-> <<Head(users).Address, communities[i].ID>>]
             ELSE <<>>)
         \o ExpectedPairs(Tail(users), date, communities)

IsPrefix(a, b) == Len(a) <= Len(b) /\ a = SubSeq(b, 1, Len(a))

\* The error messages after which HandleUsersMetrics returns.
UsersAborted ==
    \E i \in 1..Len(rpOut) :
        /\ rpOut[i].kind = "error"
        /\ rpOut[i].fields[1] \in {"form", "provide a valid date", "baddate", "query",
                                   "no communities found", "openedarguments", "replies",
                                   "must contain community id"}

RECURSIVE MapWords(_, _, _)
MapWords(words, Op(_, _), https) ==
    IF words = <<>> THEN <<>>
    ELSE <<Op(Head(words), https)>> \o MapWords(Tail(words), Op, https)

\* A mention of a username with a profile becomes @ and the address.
CosmosMention(word, https) ==
    IF word # <<>> /\ Head(word) = "@" /\ TwitterProfileByUsername(Tail(word)) # NilProfile
       THEN <<"@">> \o TwitterProfileByUsername(Tail(word)).Address
       ELSE word

\* A mention of an address with a profile becomes the link of the profile.
UsersMention(word, https) ==
    IF word # <<>> /\ Head(word) = "@" /\ TwitterProfileByAddress(Tail(word)) # NilProfile
       THEN <<"[", "@">> \o TwitterProfileByAddress(Tail(word)).Username
            \o <<"]", "(", IF https THEN "https://" ELSE "http://", "host/profile/">>
            \o Tail(word) \o <<")">>
       ELSE word

\* C13 as stated: TranslateToCosmosMentions returns the body in which each
\* @username mention of a username with a profile is replaced by @address,
\* and everything else is as it was.
CosmosMentionsOnlyReplaced ==
    mnOp = "cosmos" /\ ~mnErr =>
        mnOut = JoinWords(MapWords(SplitWords(mnBody), CosmosMention, FALSE))

\* C14 as stated: TranslateToUsersMentions returns the body in which each
\* @address mention of an address with a profile is replaced by
\* [@username](scheme://host/profile/address), https exactly when HTTPS is
\* enabled, and everything else is as it was.
UsersMentionsOnlyReplaced ==
    mnOp = "users" /\ ~mnErr =>
        mnOut = JoinWords(MapWords(SplitWords(mnBody), UsersMention, mnHTTPS))

(***************************************************************************)
(* Invites.                                                                *)
(***************************************************************************)
\* C15 as stated: under any interleaving of the calls invites_left is never
\* below zero, and a returned ConsumeInvite has returned true exactly when
\* it decremented invites_left by one.
ConsumeReturnsTrueIffDecremented ==
    /\ invitesLeft >= 0
    /\ \A c \in InviteCalls :
         invCalls[c].fn = "ConsumeInvite" /\ invCalls[c].pc = "done" =>
             (invCalls[c].ret = "true" <=> invCalls[c].decremented = 1)

(***************************************************************************)
(* BasicAuth.                                                              *)
(***************************************************************************)
\* C16: the wrapped handler is invoked exactly when the request carries
\* basic-auth credentials whose user name and password both equal the
\* configured ones; otherwise the response is 401 with a WWW-Authenticate
\* header and the handler is not invoked.
BasicAuthExact ==
    baPc = "served" =>
        IF /\ baRequest.auth = "basic"
           /\ baRequest.user = baAdmin.Username
           /\ baRequest.pass = baAdmin.Password
           THEN baInvoked = 1 /\ baResponse.status = 200
           ELSE /\ baInvoked = 0
                /\ baResponse.status = 401
                /\ baResponse.wwwAuthenticate # ""

BasicAuthWitness ==
    /\ baPc = "served"
    /\ baInvoked = 1
    /\ baRequest.user = <<"a", "b">>
    /\ baRequest.pass = <<"b", "a">>

(***************************************************************************)
(* The flags of a user.                                                    *)
(***************************************************************************)
\* The identifiers and the password of the registered user.
NamesUser(identifier, id) ==
    id \in DOMAIN userRows /\ identifier \in {userRows[id].Username, userRows[id].Email}

ApprovalExclusive ==
    /\ [](\A id \in RowIDs : userRows[id].ApprovedAt = 0 \/ userRows[id].RejectedAt = 0)
    /\ [][\A id \in RowIDs :
            userRows[id].VerifiedAt # 0 =>
                /\ userRows'[id].ApprovedAt = userRows[id].ApprovedAt
                /\ userRows'[id].RejectedAt = userRows[id].RejectedAt]_vars

\* ApproveUserByID called on a verified user that had been rejected.
ApprovalExclusiveWitness ==
    /\ lastOp.fn = "ApproveUserByID"
    /\ lastOp.id = 1
    /\ userRows[1].VerifiedAt # 0
    /\ userRows[1].RejectedAt # 0
    /\ userRows[1].ApprovedAt = 0

(***************************************************************************)
(* getUniqueUsername.                                                      *)
(***************************************************************************)
\* A username is free when no user holds it, in the sense of the lookup.
IsFree(name) == \A t \in unTaken : ToLower(t) # ToLower(name)

\* The smallest positive n for which the requested name followed by n is free.
SmallestFreeSuffix ==
    CHOOSE n \in 1..(Cardinality(unTaken) + 1) :
        /\ IsFree(unUsername \o Itoa(n))
        /\ \A m \in 1..(n - 1) : ~IsFree(unUsername \o Itoa(m))

\* C19: the username returned is free at the lookup, it is the requested
\* name when that is free and otherwise the requested name followed by the
\* smallest positive integer that makes it free; and every call returns.
UniqueUsernameSmallestFree ==
    /\ [](unPc = "done" =>
            /\ IsFree(unResult)
            /\ unResult = IF IsFree(unUsername) THEN unUsername
                          ELSE unUsername \o Itoa(SmallestFreeSuffix))
    /\ (unPc = "call" ~> unPc \in {"done", "error"})

\* The requested name and its suffixes 1 to 9 are taken: the answer is a10.
UniqueUsernameWitness ==
    /\ unPc = "done"
    /\ unUsername = <<"a">>
    /\ unResult = <<"a", "1", "0">>

(***************************************************************************)
(* notExpiredAt.                                                           *)
(***************************************************************************)
\* C20: notExpiredAt(date, created, end) is true exactly when created is on
\* or after the beta release date, created is strictly before end and
\* created <= date <= end; for a stake created before the beta release date
\* it is always false.
NotExpiredAtExact ==
    nePc = "done" =>
        /\ neResult <=> /\ neArgs.created >= BetaReleaseDate
                        /\ neArgs.created < neArgs.end
                        /\ neArgs.created <= neArgs.date
                        /\ neArgs.date <= neArgs.end
        /\ neArgs.created < BetaReleaseDate => ~neResult

\* Created on the beta release date and asked for on the end date.
NotExpiredAtWitness ==
    /\ nePc = "done"
    /\ neResult
    /\ neArgs.created = BetaReleaseDate
    /\ neArgs.date = neArgs.end

(***************************************************************************)
(* The reward notification worker.                                         *)
(***************************************************************************)
\* C21 as stated: the reward notification worker never stops on a request:
\* whatever the request, it forwards one notification or drops the request
\* and goes back to receiving.
RewardWorkerNeverStops ==
    \A w \in 1..Len(goroutines) :
        goroutines[w].fn = "processRewardsNotifications" => goroutines[w].pc # "panicked"

(***************************************************************************)
(* Error responses and report output of the metrics handlers.              *)
(***************************************************************************)
\* C22 as stated: a metrics handler emits either a single error response
\* or report output, never both: when the response holds an error, that
\* error is the only thing written to it.
ErrorOrReportNeverBoth ==
    \A i \in 1..Len(rpOut) : rpOut[i].kind = "error" => Len(rpOut) = 1

(***************************************************************************)
(* The token check of HandleUserBase.                                      *)
(***************************************************************************)
Unauthorized == <<[kind |-> "error", code |-> 401, fields |-> <<"Invalid token">>]>>

\* C23: when the configured metrics secret is empty or differs from the
\* Metrics-Secret header of the request, HandleUserBase responds 401 and
\* neither writes nor buffers a CSV header or row, and it is finished; an
\* empty configured secret refuses every request, the one with an empty
\* header included.
UserBaseRefusesInvalidToken ==
    (rpHandler = "userbase" /\ (rpSecret = "" \/ rpSecret # rpHeader)) =>
        /\ rpOut = Unauthorized
        /\ rpBuf = <<>>
        /\ rpPc = "done"

\* An empty configured secret met by a request with an empty header, refused.
UserBaseRefusesWitness ==
    /\ rpHandler = "userbase"
    /\ rpSecret = ""
    /\ rpHeader = ""
    /\ rpOut = Unauthorized
    /\ rpBuf = <<>>
====
